---- MODULE Spec2Model ----
(***************************************************************************)
(* Peddler: the scheduler handler, ScraperService.executeScraper with its  *)
(* listing reconciliation, and the services they call (ConfigService,      *)
(* DatabaseService, FacebookMarketplaceScraper), one action per await.     *)
(***************************************************************************)
EXTENDS Integers, Sequences, FiniteSets, TLC

\* ------------------------------------------------------------------ bounds
MaxWatchers == 3
MaxLimit == 3
MaxListings == 2
MaxWaves == 4
MaxRecords == 2
MaxRetries == 3

\* ------------------------------------------------------- program constants
\* instants and durations are in seconds: Date.now() is 1000 * now
CACHE_TTL == 5 * 60
LISTING_TTL == 30 * 24 * 60 * 60
COOLDOWN == 2

\* ------------------------------------------------------------ value spaces
\* scraper ids; 0 is an id that no configuration holds
Ids == 0..MaxWatchers
Marketplaces == {"facebook", "craigslist"}
\* priceDropThreshold as a fraction <<numerator, denominator>>
Thresholds == {<<0, 1>>, <<1, 10>>}
Items == {"a", "b"}
Prices == {0, 4500, 4600, 5000}
\* the channels of NotificationConfig, in the order sendNotifications tests
\* them; a channel is absent, present with enabled false, or enabled
Channels == <<"slack", "telegram", "pushover">>
ChannelNames == {Channels[k] : k \in 1..Len(Channels)}
ChannelSettings == {"absent", "disabled", "enabled"}
NoChannels == [c \in ChannelNames |-> "absent"]
\* null / undefined: for an object, for a numeric attribute, for an instant
Null == [null |-> TRUE]
NoPrice == -1
NoTime == -1
\* undefined for a scraperId
NoId == -1
\* an Item without a title attribute, and the title of the listings of the
\* runs that set no keyword filter
NoTitle == <<"undefined">>
PlainTitle == <<"c", "a", "r">>

VARIABLES
  now,         \* the clock, in seconds
  ssmConfig,   \* the AppConfig.scrapers stored in the SSM parameter
  db,          \* the listings table: (scraperId, listingId) -> record or Null
  maxConcurrent, \* process.env.MAX_CONCURRENT_SCRAPERS after parseInt
  spc,         \* position of the scheduler handler
  enabledScrapers, i, batch, results,   \* locals of the scheduler handler
  svc,         \* ConfigService of the ScraperService: the shared cache
  runner,      \* per scraper id: the locals of its executeScraper call
  sent,        \* per scraper id: the payloads handed to NotificationService
  waves,       \* history: the batches the scheduler has started
  cooldowns,   \* history: number of inter-batch delays taken
  timer,       \* the instant the pending setTimeout fires, or NoTime
  notifier,    \* the notifier handler: its position and its SQS records
  request,     \* the on-demand scraper handler: its event and its response
  retrying     \* a call of retry: its arguments, its loop and its history

vars == <<now, ssmConfig, db, maxConcurrent, spc, enabledScrapers, i, batch,
          results, svc, runner, sent, waves, cooldowns, timer, notifier,
          request, retrying>>

handlerVars == <<notifier, request, retrying>>

schedVars == <<spc, enabledScrapers, i, batch, results, waves, cooldowns,
               timer>>

\* ----------------------------------------------------------------- helpers
Min(a, b) == IF a < b THEN a ELSE b
Max(a, b) == IF a > b THEN a ELSE b

\* Array.prototype.slice(start, end) on a 1-based sequence
Slice(s, start, end) ==
  LET n == Len(s)
      from == IF start < 0 THEN Max(n + start, 0) ELSE Min(start, n)
      to == IF end < 0 THEN Max(n + end, 0) ELSE Min(end, n)
  IN SubSeq(s, from + 1, to)

\* a filter that keeps every scraper
FilterNone(s) == s

\* Array.prototype.filter
RECURSIVE FilterEnabled(_)
FilterEnabled(s) ==
  IF s = <<>> THEN <<>>
  ELSE IF Head(s).enabled THEN <<Head(s)>> \o FilterEnabled(Tail(s))
       ELSE FilterEnabled(Tail(s))

\* Array.prototype.find(s => s.id === scraperId)
RECURSIVE Find(_, _)
Find(s, scraperId) ==
  IF s = <<>> THEN Null
  ELSE IF Head(s).id = scraperId THEN Head(s) ELSE Find(Tail(s), scraperId)

SeqsUpTo(S, n) == UNION {[1..k -> S] : k \in 0..n}

\* ------------------------------------------------------------------ records
\* a Listing as FacebookMarketplaceScraper.scrape builds it
Listing(scraperId, listingId, title, price, at) ==
  [scraperId |-> scraperId, listingId |-> listingId, title |-> title,
   price |-> price, previousPrice |-> NoPrice, firstSeen |-> at,
   lastSeen |-> at, expiresAt |-> 0]

\* what the marketplace page can show: a list of elements
\* (listingId, price, title), a title being a sequence of characters
Pages(entries, n) == SeqsUpTo(entries, n)

\* the handlers and helpers that a run does not use, before any call
IdleNotifier == [pc |-> "off", records |-> <<>>]
IdleRequest == [pc |-> "off", event |-> Null, invoked |-> <<>>, response |-> Null]
IdleRetry == [pc |-> "off", maxRetries |-> 0, delay |-> 0, i |-> 0,
              lastError |-> "undefined", calls |-> 0, attempts |-> <<>>,
              waits |-> <<>>, settled |-> Null]

IdleRunner ==
  [pc |-> "idle", startTime |-> 0, pending |-> Null, scraperConfig |-> Null,
   scraper |-> "null", scrapeCalls |-> 0, scrapedListings |-> <<>>, idx |-> 0,
   existingListing |-> Null, command |-> Null,
   newListings |-> <<>>, priceDrops |-> <<>>, notifications |-> <<>>,
   ret |-> Null, settled |-> Null, faults |-> {}, log |-> <<>>]

Fulfilled(value) == [status |-> "fulfilled", value |-> value]
Rejected(reason) == [status |-> "rejected", reason |-> reason]

IsSettled(w) == runner[w].pc = "settled"
InFlight(w) == runner[w].pc \notin {"idle", "settled"}

\* Math.floor(Date.now() / 1000) + (30 * 24 * 60 * 60), at the instant t
\* an expiry one cache lifetime after the write
ExpiresAtShort(t) == t + CACHE_TTL
ExpiresAt(t) == t + LISTING_TTL

\* ------------------------------------------------- ScraperService, results
FailureResult(w, message) ==
  [scraperId |-> w, success |-> FALSE, error |-> message,
   newListings |-> <<>>, priceDrops |-> <<>>, totalFound |-> 0,
   executionTime |-> now - runner[w].startTime]

SuccessResult(w, r) ==
  [scraperId |-> w, success |-> TRUE, error |-> "",
   newListings |-> r.newListings, priceDrops |-> r.priceDrops,
   totalFound |-> Len(r.scrapedListings),
   executionTime |-> now - runner[w].startTime]

\* a function without the finally block: it settles with the return value
FinallySkipCleanup(r, value) ==
  [r EXCEPT !.pc = "settled", !.settled = Fulfilled(value)]

\* the finally block: cleanup is awaited only when a scraper was created;
\* otherwise the promise settles with the value of the return statement
Finally(r, value) ==
  IF r.scraper = "null"
  THEN [r EXCEPT !.pc = "settled", !.settled = Fulfilled(value)]
  ELSE [r EXCEPT !.pc = "cleanup", !.ret = value]

\* a catch block that swallows the error and returns what was gathered
CatchAsSuccess(w, r, message) ==
  Finally([r EXCEPT !.faults = @ \cup {message}], SuccessResult(w, r))

\* the catch block of executeScraper
Catch(w, r, message) ==
  Finally([r EXCEPT !.faults = @ \cup {message}], FailureResult(w, message))

\* ConfigService.getConfig / getSecrets up to the await: a fresh cache entry
\* is returned, otherwise the request is sent
CallGetConfig(service) ==
  IF service.configCache # Null /\ now < service.cacheExpiry
  THEN [hit |-> TRUE, value |-> service.configCache]
  ELSE [hit |-> FALSE, value |-> Null]

CallGetSecrets(service) ==
  IF service.secretsCache /\ now < service.cacheExpiry
  THEN [hit |-> TRUE, value |-> Null] ELSE [hit |-> FALSE, value |-> Null]

\* executeScraper from its call to its first await
ExecStart(w, service) ==
  [IdleRunner EXCEPT !.pc = "getConfig", !.startTime = now,
                     !.pending = CallGetConfig(service)]

\* a disabled scraper reported as a failed run
DisabledAsFailure(w) == FailureResult(w, "Scraper is disabled")

DisabledResult(w) ==
  [scraperId |-> w, success |-> TRUE, error |-> "",
   newListings |-> <<>>, priceDrops |-> <<>>, totalFound |-> 0,
   executionTime |-> now - runner[w].startTime]

\* await this.configService.getConfig() resolves or rejects; then the lookup
\* of the scraper, the enabled test and the marketplace test
GetConfigDone(w) ==
  /\ runner[w].pc = "getConfig"
  /\ \E ok \in BOOLEAN :
       LET r == runner[w]
           config == IF r.pending.hit THEN r.pending.value ELSE ssmConfig
           scraperConfig == Find(config.scrapers, w)
       IN /\ r.pending.hit => ok
          /\ svc' = IF ok /\ ~r.pending.hit
                    THEN [svc EXCEPT !.configCache = config,
                                     !.cacheExpiry = now + CACHE_TTL,
                                     !.configFetchedAt = now]
                    ELSE svc
          /\ runner' = [runner EXCEPT ![w] =
               IF ~ok THEN Catch(w, r, "Failed to load configuration")
               ELSE IF scraperConfig = Null
                 THEN Catch(w, r, "Scraper configuration not found")
               ELSE IF ~scraperConfig.enabled
                 THEN Finally(r, DisabledResult(w))
               ELSE IF scraperConfig.marketplace # "facebook"
                 THEN Catch(w, r, "Unsupported marketplace")
               ELSE [r EXCEPT !.scraperConfig = scraperConfig,
                              !.scraper = "created", !.pc = "initialize",
                              !.pending = Null]]
  /\ UNCHANGED <<now, ssmConfig, db, maxConcurrent, handlerVars, schedVars, sent>>

\* await scraper.initialize(): chromium.launch resolves or rejects
InitializeDone(w) ==
  /\ runner[w].pc = "initialize"
  /\ \E ok \in BOOLEAN :
       runner' = [runner EXCEPT ![w] =
         IF ok THEN [@ EXCEPT !.scraper = "open", !.pc = "getSecrets",
                              !.pending = CallGetSecrets(svc)]
         ELSE Catch(w, @, "Failed to launch browser")]
  /\ UNCHANGED <<now, ssmConfig, db, maxConcurrent, handlerVars, schedVars, svc, sent>>

\* await this.configService.getSecrets(); then scraper.scrape is called
GetSecretsDone(w) ==
  /\ runner[w].pc = "getSecrets"
  /\ \E ok \in BOOLEAN :
       LET r == runner[w]
       IN /\ r.pending.hit => ok
          /\ svc' = IF ok /\ ~r.pending.hit
                    THEN [svc EXCEPT !.secretsCache = TRUE,
                                     !.cacheExpiry = now + CACHE_TTL,
                                     !.secretsFetchedAt = now]
                    ELSE svc
          /\ runner' = [runner EXCEPT ![w] =
               IF ok THEN [r EXCEPT !.pc = "scrape", !.pending = Null,
                                    !.scrapeCalls = @ + 1]
               ELSE Catch(w, r, "Failed to load secrets")]
  /\ UNCHANGED <<now, ssmConfig, db, maxConcurrent, handlerVars, schedVars, sent>>

\* ------------------------------------------------ processListings, per item
\* the size of the price change, whatever its direction
PriceChangePercentage(existingListing, listing) ==
  <<IF existingListing.price >= listing.price
    THEN existingListing.price - listing.price
    ELSE listing.price - existingListing.price,
    existingListing.price>>

\* (existingListing.price - listing.price) / existingListing.price, kept as
\* <<numerator, denominator>>; a zero denominator is the JS division by zero
PriceDropPercentage(existingListing, listing) ==
  <<existingListing.price - listing.price, existingListing.price>>

\* a comparison that leaves the threshold itself out
GtThreshold(f, t) ==
  IF f[2] = 0 THEN f[1] > 0 ELSE f[1] * t[2] > t[1] * f[2]

\* priceDropPercentage >= config.priceDropThreshold on JS numbers:
\* x/0 is +Infinity for x > 0, -Infinity for x < 0 and NaN for x = 0
GeThreshold(f, t) ==
  IF f[2] = 0 THEN f[1] > 0 ELSE f[1] * t[2] >= t[1] * f[2]

\* a key that leaves the listing's scraperId out
KeyByListingId(listing) == <<1, listing.listingId>>
\* Key: { scraperId, listingId } of the Get, Put and Update commands
Key(listing) == <<listing.scraperId, listing.listingId>>
Current(r) == r.scrapedListings[r.idx]

\* the payloads built by ScraperService.sendNotifications, in call order
NewPayload(listing) ==
  [type |-> "new_listing", listing |-> listing, priceDropPercentage |-> <<0, 1>>]
DropPayload(listing) ==
  [type |-> "price_drop", listing |-> listing,
   priceDropPercentage |->
     IF listing.previousPrice # NoPrice /\ listing.previousPrice # 0
     THEN <<(listing.previousPrice - listing.price) * 100, listing.previousPrice>>
     ELSE <<0, 1>>]
\* a sendNotifications that leaves the price drops out
PayloadsNewOnly(r) ==
  [k \in 1..Len(r.newListings) |-> NewPayload(r.newListings[k])]

Payloads(r) ==
  [k \in 1..Len(r.newListings) |-> NewPayload(r.newListings[k])] \o
  [k \in 1..Len(r.priceDrops) |-> DropPayload(r.priceDrops[k])]

\* senders called for every channel that is configured, enabled or not
PresentSenders(scraper) ==
  SelectSeq(Channels, LAMBDA c : scraper.notifications[c] # "absent")

\* NotificationService.sendNotifications: the promises array, one sender
\* call for each channel whose enabled is true, slack, telegram, pushover
EnabledSenders(scraper) ==
  SelectSeq(Channels, LAMBDA c : scraper.notifications[c] = "enabled")

\* Promise.all in place of Promise.allSettled: the first rejection rejects
SettleFirstRejection(d) ==
  IF \E k \in 1..Len(d.promises) : d.promises[k].status = "rejected"
  THEN [d EXCEPT !.status = "rejected"]
  ELSE IF \A k \in 1..Len(d.promises) : d.promises[k].status = "fulfilled"
       THEN [d EXCEPT !.status = "fulfilled"]
       ELSE d

\* await Promise.allSettled(promises) and the logging forEach: the call
\* returns once every sender has settled, whatever the outcomes
SettleDispatch(d) ==
  IF \A k \in 1..Len(d.promises) : d.promises[k].status # "pending"
  THEN [d EXCEPT !.status = "fulfilled"]
  ELSE d

\* NotificationService.sendNotifications(payload) from its call to its
\* await; each sender makes its one axios.post before the await
Dispatch(scraper) ==
  LET senders == EnabledSenders(scraper)
  IN SettleDispatch(
       [promises |-> [k \in 1..Len(senders) |->
                        [channel |-> senders[k], status |-> "pending",
                         posts |-> 1]],
        status |-> "pending"])

\* ScraperService.sendNotifications up to its await: one call of
\* NotificationService.sendNotifications for each payload, in order
StartNotifications(r) ==
  [k \in 1..(Len(r.newListings) + Len(r.priceDrops)) |-> Dispatch(r.scraperConfig)]

\* a loop whose catch rethrows: an error on one listing ends the run
AfterListingAbort(w, r) ==
  IF r.log # <<>> /\ r.log[Len(r.log)].outcome = "error"
  THEN Catch(w, r, "Failed to process listing")
  ELSE IF r.idx < Len(r.scrapedListings)
  THEN [r EXCEPT !.idx = @ + 1, !.pc = "getListing",
                 !.existingListing = Null, !.command = Null]
  ELSE LET done == [r EXCEPT !.existingListing = Null, !.command = Null]
       IN IF Len(r.newListings) > 0 \/ Len(r.priceDrops) > 0
          THEN [done EXCEPT !.pc = "notify",
                            !.notifications = StartNotifications(done)]
          ELSE Finally(done, SuccessResult(w, done))

\* the loop of processListings moves to the next listing; after the last
\* one executeScraper notifies when there is something to notify, and returns
AfterListing(w, r) ==
  IF r.idx < Len(r.scrapedListings)
  THEN [r EXCEPT !.idx = @ + 1, !.pc = "getListing",
                 !.existingListing = Null, !.command = Null]
  ELSE LET done == [r EXCEPT !.existingListing = Null, !.command = Null]
       IN IF Len(r.newListings) > 0 \/ Len(r.priceDrops) > 0
          THEN [done EXCEPT !.pc = "notify",
                            !.notifications = StartNotifications(done)]
          ELSE Finally(done, SuccessResult(w, done))

SentAfter(w, r) ==
  IF r.pc = "notify" THEN [sent EXCEPT ![w] = Payloads(r)] ELSE sent

Logged(r, outcome) ==
  [r EXCEPT !.log = Append(@, [listing |-> Current(r),
                               existing |-> r.existingListing,
                               outcome |-> outcome])]

\* String.prototype.toLowerCase, character by character
LowerChar(c) ==
  CASE c = "A" -> "a" [] c = "B" -> "b" [] c = "C" -> "c" [] OTHER -> c
ToLowerCase(t) == [k \in 1..Len(t) |-> LowerChar(t[k])]

\* String.prototype.includes
Includes(t, keyword) ==
  \E k \in 0..(Len(t) - Len(keyword)) : SubSeq(t, k + 1, k + Len(keyword)) = keyword

\* keywords.some(keyword => titleLower.includes(keyword.toLowerCase()))
SomeKeyword(keywords, titleLower) ==
  \E k \in 1..Len(keywords) : Includes(titleLower, ToLowerCase(keywords[k]))

\* filters that leave the exclusion keywords out
PassesFiltersNoExclude(title, price, config) ==
  LET titleLower == ToLowerCase(title)
  IN /\ ~(config.priceMin # NoPrice /\ price < config.priceMin)
     /\ ~(config.priceMax # NoPrice /\ price > config.priceMax)
     /\ Len(config.includeKeywords) > 0 =>
          SomeKeyword(config.includeKeywords, titleLower)

\* FacebookMarketplaceScraper.passesFilters; an undefined bound is NoPrice,
\* an undefined keyword list the empty list
PassesFilters(title, price, config) ==
  LET titleLower == ToLowerCase(title)
  IN /\ ~(config.priceMin # NoPrice /\ price < config.priceMin)
     /\ ~(config.priceMax # NoPrice /\ price > config.priceMax)
     /\ Len(config.includeKeywords) > 0 =>
          SomeKeyword(config.includeKeywords, titleLower)
     /\ Len(config.excludeKeywords) > 0 =>
          ~SomeKeyword(config.excludeKeywords, titleLower)

\* await scraper.scrape(scraperConfig, cookies) resolves with the listings
\* built from the elements of one page that pass the filters, or rejects;
\* processListings then starts on the first listing
ScrapeDone(w, pages) ==
  /\ runner[w].pc = "scrape"
  /\ \E ok \in BOOLEAN, page \in pages :
       LET r == runner[w]
           kept == SelectSeq(page,
                     LAMBDA e : PassesFilters(e[3], e[2], r.scraperConfig))
           scrapedListings ==
             [k \in 1..Len(kept) |->
                Listing(r.scraperConfig.id, kept[k][1], kept[k][3],
                        kept[k][2], now)]
           r2 == IF ok
                 THEN AfterListing(w, [r EXCEPT !.scrapedListings = scrapedListings])
                 ELSE Catch(w, r, "Failed to scrape")
       IN /\ ~ok => page = <<>>
          /\ runner' = [runner EXCEPT ![w] = r2]
          /\ sent' = SentAfter(w, r2)
  /\ UNCHANGED <<now, ssmConfig, db, maxConcurrent, handlerVars, schedVars, svc>>

\* await this.dbService.getListing(...): on a miss saveListing is called, on
\* a hit updateListingPrice is called (with a changed or with the same price)
GetListingDone(w) ==
  /\ runner[w].pc = "getListing"
  /\ \E ok \in BOOLEAN :
       LET r == runner[w]
           existingListing == db[Key(Current(r))]
           r2 == IF ~ok THEN AfterListing(w, Logged(r, "error"))
                 ELSE IF existingListing = Null
                 THEN [r EXCEPT !.pc = "saveListing",
                                !.command = [prevPrice |-> NoPrice,
                                             expiresAt |-> ExpiresAt(now)]]
                 ELSE [r EXCEPT !.pc = "updateGet",
                                !.existingListing = existingListing]
       IN /\ runner' = [runner EXCEPT ![w] = r2]
          /\ sent' = SentAfter(w, r2)
  /\ UNCHANGED <<now, ssmConfig, db, maxConcurrent, handlerVars, schedVars, svc>>

\* an Item that records the first price as a previous price
PutItemWithPrevious(listing, command) ==
  [listing EXCEPT !.expiresAt = command.expiresAt,
                  !.previousPrice = listing.price]

\* the Item of the PutCommand: { ...listing, expiresAt }
PutItem(listing, command) ==
  [listing EXCEPT !.expiresAt = command.expiresAt]

\* await this.dbService.saveListing(listing): the PutCommand
SaveListingDone(w) ==
  /\ runner[w].pc = "saveListing"
  /\ \E ok \in BOOLEAN :
       LET r == runner[w]
           listing == Current(r)
           r2 == IF ok
                 THEN AfterListing(w,
                        Logged([r EXCEPT !.newListings = Append(@, listing)], "new"))
                 ELSE AfterListing(w, Logged(r, "error"))
       IN /\ db' = IF ok
                   THEN [db EXCEPT ![Key(listing)] = PutItem(listing, r.command)]
                   ELSE db
          /\ runner' = [runner EXCEPT ![w] = r2]
          /\ sent' = SentAfter(w, r2)
  /\ UNCHANGED <<now, ssmConfig, maxConcurrent, handlerVars, schedVars, svc>>

\* updateListingPrice, first await: the getListing that reads the price to
\* keep as previousPrice; no record makes updateListingPrice return null
UpdateGetDone(w) ==
  /\ runner[w].pc = "updateGet"
  /\ \E ok \in BOOLEAN :
       LET r == runner[w]
           currentListing == db[Key(Current(r))]
           r2 == IF ~ok THEN AfterListing(w, Logged(r, "error"))
                 ELSE IF currentListing = Null
                 THEN AfterListing(w, Logged(r, "absent"))
                 ELSE [r EXCEPT !.pc = "updateSend",
                                !.command = [prevPrice |-> currentListing.price,
                                             expiresAt |-> ExpiresAt(now)]]
       IN /\ runner' = [runner EXCEPT ![w] = r2]
          /\ sent' = SentAfter(w, r2)
  /\ UNCHANGED <<now, ssmConfig, db, maxConcurrent, handlerVars, schedVars, svc>>

\* an UpdateExpression that leaves previousPrice out
UpdatedWithoutPrevious(record, listing, command) ==
  IF record = Null
  THEN [scraperId |-> listing.scraperId, listingId |-> listing.listingId,
        title |-> NoTitle,
        price |-> listing.price, previousPrice |-> NoPrice,
        firstSeen |-> NoTime, lastSeen |-> listing.lastSeen,
        expiresAt |-> command.expiresAt]
  ELSE [record EXCEPT !.price = listing.price,
                      !.lastSeen = listing.lastSeen,
                      !.expiresAt = command.expiresAt]

\* an UpdateExpression that leaves lastSeen out
UpdatedWithoutLastSeen(record, listing, command) ==
  IF record = Null
  THEN [scraperId |-> listing.scraperId, listingId |-> listing.listingId,
        title |-> NoTitle,
        price |-> listing.price, previousPrice |-> command.prevPrice,
        firstSeen |-> NoTime, lastSeen |-> NoTime,
        expiresAt |-> command.expiresAt]
  ELSE [record EXCEPT !.price = listing.price,
                      !.previousPrice = command.prevPrice,
                      !.expiresAt = command.expiresAt]

\* the UpdateCommand: SET price, previousPrice, lastSeen, expiresAt on the
\* key (DynamoDB creates the item when the key has none), ReturnValues ALL_NEW
Updated(record, listing, command) ==
  IF record = Null
  THEN [scraperId |-> listing.scraperId, listingId |-> listing.listingId,
        title |-> NoTitle,
        price |-> listing.price, previousPrice |-> command.prevPrice,
        firstSeen |-> NoTime, lastSeen |-> listing.lastSeen,
        expiresAt |-> command.expiresAt]
  ELSE [record EXCEPT !.price = listing.price,
                      !.previousPrice = command.prevPrice,
                      !.lastSeen = listing.lastSeen,
                      !.expiresAt = command.expiresAt]

\* the test that puts the updated listing in priceDrops
IsPriceDrop(listing, existingListing, updatedListing, threshold) ==
  /\ listing.price # existingListing.price
  /\ updatedListing # Null
  /\ GeThreshold(PriceDropPercentage(existingListing, listing), threshold)

\* updateListingPrice, second await: the update is applied and returned
UpdateSendDone(w) ==
  /\ runner[w].pc = "updateSend"
  /\ \E ok \in BOOLEAN :
       LET r == runner[w]
           listing == Current(r)
           updatedListing == Updated(db[Key(listing)], listing, r.command)
           r2 == IF ~ok THEN AfterListing(w, Logged(r, "error"))
                 ELSE IF IsPriceDrop(listing, r.existingListing, updatedListing,
                                     r.scraperConfig.priceDropThreshold)
                 THEN AfterListing(w,
                        Logged([r EXCEPT !.priceDrops = Append(@, updatedListing)],
                               "drop"))
                 ELSE AfterListing(w, Logged(r, "updated"))
       IN /\ db' = IF ok THEN [db EXCEPT ![Key(listing)] = updatedListing] ELSE db
          /\ runner' = [runner EXCEPT ![w] = r2]
          /\ sent' = SentAfter(w, r2)
  /\ UNCHANGED <<now, ssmConfig, maxConcurrent, handlerVars, schedVars, svc>>

\* the axios.post of one sender resolves, or rejects (a timeout included)
\* and the sender rethrows; the NotificationService call that made it
\* returns when it was the last of its senders to settle
ChannelDone(w) ==
  /\ runner[w].pc = "notify"
  /\ \E k \in 1..Len(runner[w].notifications), c \in 1..Len(Channels),
        ok \in BOOLEAN :
       LET d == runner[w].notifications[k]
       IN /\ c <= Len(d.promises)
          /\ d.promises[c].status = "pending"
          /\ runner' = [runner EXCEPT ![w].notifications[k] =
               SettleDispatch([d EXCEPT !.promises[c].status =
                                 IF ok THEN "fulfilled" ELSE "rejected"])]
  /\ UNCHANGED <<now, ssmConfig, db, maxConcurrent, handlerVars, schedVars, svc, sent>>

\* every NotificationService call has returned or thrown
AllNotified(r) ==
  \A k \in 1..Len(r.notifications) : r.notifications[k].status # "pending"

\* a sendNotifications that throws when a sender has failed
NotifyDoneChecked(w) ==
  /\ runner[w].pc = "notify"
  /\ AllNotified(runner[w])
  /\ runner' = [runner EXCEPT ![w] =
       IF \E k \in 1..Len(@.notifications) :
            \E c \in 1..Len(@.notifications[k].promises) :
              @.notifications[k].promises[c].status = "rejected"
       THEN Catch(w, @, "Failed to notify")
       ELSE Finally(@, SuccessResult(w, @))]
  /\ UNCHANGED <<now, ssmConfig, db, maxConcurrent, handlerVars, schedVars, svc, sent>>

\* await this.sendNotifications(...): Promise.allSettled(notifications)
\* resolves once every call has settled, and never rejects
NotifyDone(w) ==
  /\ runner[w].pc = "notify"
  /\ AllNotified(runner[w])
  /\ runner' = [runner EXCEPT ![w] = Finally(@, SuccessResult(w, @))]
  /\ UNCHANGED <<now, ssmConfig, db, maxConcurrent, handlerVars, schedVars, svc, sent>>

\* finally { if (scraper) await scraper.cleanup() }: browser.close() is
\* awaited when a browser was launched; its rejection replaces the return
CleanupDone(w) ==
  /\ runner[w].pc = "cleanup"
  /\ \E ok \in BOOLEAN :
       LET r == runner[w]
       IN /\ r.scraper # "open" => ok
          /\ runner' = [runner EXCEPT ![w] =
               IF ok
               THEN [r EXCEPT !.pc = "settled", !.settled = Fulfilled(r.ret),
                              !.scraper = IF @ = "open" THEN "closed" ELSE @]
               ELSE [r EXCEPT !.pc = "settled",
                              !.settled = Rejected("Failed to close browser"),
                              !.faults = @ \cup {"Failed to close browser"}]]
  /\ UNCHANGED <<now, ssmConfig, db, maxConcurrent, handlerVars, schedVars, svc, sent>>

\* ------------------------------------------------------ ConfigService, new
\* configFetchedAt and secretsFetchedAt are not fields of the class: they
\* record the instant of the fetch that filled each cache
NewConfigService ==
  [configCache |-> Null, secretsCache |-> FALSE, cacheExpiry |-> 0,
   configFetchedAt |-> NoTime, secretsFetchedAt |-> NoTime]

\* ------------------------------------------------------- scheduler handler
\* results.push of a rejected promise (the else branch of the forEach)
RejectedResult(scraperId, reason) ==
  [scraperId |-> scraperId, success |-> FALSE, error |-> reason,
   newListings |-> <<>>, priceDrops |-> <<>>, totalFound |-> 0,
   executionTime |-> 0]

\* a forEach that pushes the fulfilled values only
BatchResultsFulfilledOnly ==
  LET Pick(k) == runner[batch[k].id].settled
      RECURSIVE Collect(_)
      Collect(k) ==
        IF k > Len(batch) THEN <<>>
        ELSE IF Pick(k).status = "fulfilled"
             THEN <<Pick(k).value>> \o Collect(k + 1)
             ELSE Collect(k + 1)
  IN Collect(1)

\* batchResults.forEach: one result pushed per entry of the batch, in order
BatchResults ==
  [k \in 1..Len(batch) |->
     LET settled == runner[batch[k].id].settled
     IN IF settled.status = "fulfilled" THEN settled.value
        ELSE RejectedResult(batch[k].id, settled.reason)]

\* a slice that starts one entry early: the last scraper of a wave is
\* taken again by the next wave
BatchAtOverlapping(scrapers, index) ==
  Slice(scrapers, Max(index - 1, 0), index + maxConcurrent)

\* a slice that runs to the end of the list
BatchAtRest(scrapers, index) == Slice(scrapers, index, Len(scrapers))

\* a slice whose end is the batch size, not an index
BatchAtCount(scrapers, index) == Slice(scrapers, index, maxConcurrent)

\* enabledScrapers.slice(i, i + maxConcurrent)
BatchAt(scrapers, index) == Slice(scrapers, index, index + maxConcurrent)

\* the loop test i < enabledScrapers.length and, when it holds, the body up
\* to its await: slice, batch.map(executeScraper), Promise.allSettled
LoopFrom(scrapers, index) ==
  /\ i' = index
  /\ IF index < Len(scrapers)
     THEN LET b == BatchAt(scrapers, index)
              started == {b[k].id : k \in 1..Len(b)}
          IN /\ batch' = b
             /\ waves' = Append(waves, b)
             /\ runner' = [w \in Ids |->
                  IF w \in started THEN ExecStart(w, svc) ELSE runner[w]]
             /\ sent' = [w \in Ids |-> IF w \in started THEN <<>> ELSE sent[w]]
             /\ spc' = "awaitBatch"
     ELSE /\ spc' = "done"
          /\ UNCHANGED <<batch, waves, runner, sent>>

\* await configService.getEnabledScrapers(): a rejection is rethrown by the
\* handler, no enabled scraper makes it return, otherwise the loop starts
SchedGetEnabledDone ==
  /\ spc = "getEnabled"
  /\ \E ok \in BOOLEAN :
       LET enabled == FilterEnabled(ssmConfig.scrapers)
       IN IF ~ok
          THEN /\ spc' = "rejected"
               /\ UNCHANGED <<enabledScrapers, i, batch, results, waves,
                              runner, sent>>
          ELSE /\ enabledScrapers' = enabled
               /\ results' = <<>>
               /\ IF Len(enabled) = 0
                  THEN /\ spc' = "returned"
                       /\ UNCHANGED <<i, batch, waves, runner, sent>>
                  ELSE LoopFrom(enabled, 0)
  /\ UNCHANGED <<now, ssmConfig, db, maxConcurrent, handlerVars, svc, cooldowns, timer>>

\* Promise.allSettled(batchPromises) resolves: every promise has settled
AllSettled(b) == \A k \in 1..Len(b) : IsSettled(b[k].id)

\* the delay taken after the last batch too
HasNextBatchInclusive == i + maxConcurrent <= Len(enabledScrapers)

\* i + maxConcurrent < enabledScrapers.length: a further batch follows
HasNextBatch == i + maxConcurrent < Len(enabledScrapers)

\* a loop body that awaits Promise.all: a rejected promise of the batch
\* is thrown to the handler's catch, which rethrows it
SchedBatchAll ==
  /\ spc = "awaitBatch"
  /\ AllSettled(batch)
  /\ IF \E k \in 1..Len(batch) : runner[batch[k].id].settled.status = "rejected"
     THEN /\ spc' = "rejected"
          /\ UNCHANGED <<results, i, batch, waves, runner, sent, timer, cooldowns>>
     ELSE /\ results' = results \o BatchResults
          /\ IF HasNextBatch
             THEN /\ spc' = "cooldown"
                  /\ timer' = now + COOLDOWN
                  /\ cooldowns' = cooldowns + 1
                  /\ UNCHANGED <<i, batch, waves, runner, sent>>
             ELSE /\ LoopFrom(enabledScrapers, i + maxConcurrent)
                  /\ UNCHANGED <<timer, cooldowns>>
  /\ UNCHANGED <<now, ssmConfig, db, maxConcurrent, handlerVars, svc, enabledScrapers>>

\* a loop body that does not await the batch
SchedBatchNotAwaited ==
  /\ spc = "awaitBatch"
  /\ results' = results
  /\ IF HasNextBatch
     THEN /\ spc' = "cooldown"
          /\ timer' = now + COOLDOWN
          /\ cooldowns' = cooldowns + 1
          /\ UNCHANGED <<i, batch, waves, runner, sent>>
     ELSE /\ spc' = "done"
          /\ i' = i + maxConcurrent
          /\ UNCHANGED <<timer, cooldowns, batch, waves, runner, sent>>
  /\ UNCHANGED <<now, ssmConfig, db, maxConcurrent, handlerVars, svc, enabledScrapers>>

\* await Promise.allSettled(batchPromises) resolves once every promise of
\* the batch has settled; the results are pushed; then the delay is started
\* when a further batch exists, otherwise i advances and the loop is tested
SchedBatchSettled ==
  /\ spc = "awaitBatch"
  /\ AllSettled(batch)
  /\ results' = results \o BatchResults
  /\ IF HasNextBatch
     THEN /\ spc' = "cooldown"
          /\ timer' = now + COOLDOWN
          /\ cooldowns' = cooldowns + 1
          /\ UNCHANGED <<i, batch, waves, runner, sent>>
     ELSE /\ LoopFrom(enabledScrapers, i + maxConcurrent)
          /\ UNCHANGED <<timer, cooldowns>>
  /\ UNCHANGED <<now, ssmConfig, db, maxConcurrent, handlerVars, svc, enabledScrapers>>

\* the delay has passed and its setTimeout fires; i advances and the loop is
\* tested
SchedCooldownDone ==
  /\ spc = "cooldown"
  /\ now' = Max(now, timer)
  /\ timer' = NoTime
  /\ LoopFrom(enabledScrapers, i + maxConcurrent)
  /\ UNCHANGED <<ssmConfig, db, maxConcurrent, handlerVars, svc, enabledScrapers,
                 results, cooldowns>>

\* results.reduce((sum, r) => sum + F(r), 0)
RECURSIVE Reduce(_, _, _)
Reduce(F(_), rs, sum) ==
  IF rs = <<>> THEN sum ELSE Reduce(F, Tail(rs), sum + F(Head(rs)))

\* a summary whose price drops are counted from the new listings
SummaryDropsFromNew(rs, enabled) ==
  LET successCount == Len(SelectSeq(rs, LAMBDA r : r.success))
  IN [totalScrapers |-> Len(enabled),
      successful |-> successCount,
      failed |-> Len(enabled) - successCount,
      totalFound |-> Reduce(LAMBDA r : r.totalFound, rs, 0),
      totalNew |-> Reduce(LAMBDA r : Len(r.newListings), rs, 0),
      totalDrops |-> Reduce(LAMBDA r : Len(r.newListings), rs, 0),
      avgExecutionTime |-> <<Reduce(LAMBDA r : r.executionTime, rs, 0), Len(rs)>>]

\* the summary the handler logs when the loop has ended; the average is
\* kept as <<sum, results.length>>
Summary(rs, enabled) ==
  LET successCount == Len(SelectSeq(rs, LAMBDA r : r.success))
  IN [totalScrapers |-> Len(enabled),
      successful |-> successCount,
      failed |-> Len(enabled) - successCount,
      totalFound |-> Reduce(LAMBDA r : r.totalFound, rs, 0),
      totalNew |-> Reduce(LAMBDA r : Len(r.newListings), rs, 0),
      totalDrops |-> Reduce(LAMBDA r : Len(r.priceDrops), rs, 0),
      avgExecutionTime |-> <<Reduce(LAMBDA r : r.executionTime, rs, 0), Len(rs)>>]

\* --------------------------------------------------------- notifier handler
\* JSON.parse(record.body): the payload, or Null when it throws
Parse(body) == IF body.valid THEN body.payload ELSE Null

\* the callback of event.Records.map up to its first await: a body that
\* does not parse is caught and logged, otherwise sendNotifications is called
StartRecord(record) ==
  LET payload == Parse(record.body)
  IN IF payload = Null
     THEN [record EXCEPT !.pc = "caught", !.calls = @ + 1]
     ELSE [record EXCEPT !.pc = "sending", !.calls = @ + 1,
                         !.dispatch = Dispatch(payload.scraper)]

\* await configService.getSecrets() of a new ConfigService: a rejection is
\* rethrown by the handler, otherwise the callbacks of all records start
NotifierGetSecretsDone ==
  /\ notifier.pc = "getSecrets"
  /\ \E ok \in BOOLEAN :
       notifier' =
         IF ok
         THEN [pc |-> "awaitRecords",
               records |-> [k \in 1..Len(notifier.records) |->
                              StartRecord(notifier.records[k])]]
         ELSE [notifier EXCEPT !.pc = "rejected"]
  /\ UNCHANGED <<now, ssmConfig, db, maxConcurrent, schedVars, svc, runner,
                 sent, request, retrying>>

\* the axios.post of one sender of one record resolves or rejects
NotifierChannelDone ==
  /\ notifier.pc = "awaitRecords"
  /\ \E k \in 1..Len(notifier.records), c \in 1..Len(Channels), ok \in BOOLEAN :
       LET record == notifier.records[k]
           d == record.dispatch
       IN /\ record.pc = "sending"
          /\ c <= Len(d.promises)
          /\ d.promises[c].status = "pending"
          /\ notifier' = [notifier EXCEPT ![
               "records"][k].dispatch =
                 SettleDispatch([d EXCEPT !.promises[c].status =
                                   IF ok THEN "fulfilled" ELSE "rejected"])]
  /\ UNCHANGED <<now, ssmConfig, db, maxConcurrent, schedVars, svc, runner,
                 sent, request, retrying>>

\* await notificationService.sendNotifications(payload) returns and the
\* callback of the record ends
NotifierRecordDone ==
  /\ notifier.pc = "awaitRecords"
  /\ \E k \in 1..Len(notifier.records) :
       /\ notifier.records[k].pc = "sending"
       /\ notifier.records[k].dispatch.status # "pending"
       /\ notifier' = [notifier EXCEPT !["records"][k].pc = "sent"]
  /\ UNCHANGED <<now, ssmConfig, db, maxConcurrent, schedVars, svc, runner,
                 sent, request, retrying>>

\* a handler that awaits Promise.all of callbacks that rethrow
NotifierAllRejecting ==
  /\ notifier.pc = "awaitRecords"
  /\ \A k \in 1..Len(notifier.records) :
       notifier.records[k].pc \in {"sent", "caught"}
  /\ notifier' = [notifier EXCEPT !.pc =
       IF \E k \in 1..Len(notifier.records) : notifier.records[k].pc = "caught"
       THEN "rejected" ELSE "done"]
  /\ UNCHANGED <<now, ssmConfig, db, maxConcurrent, schedVars, svc, runner,
                 sent, request, retrying>>

\* await Promise.allSettled(promises): every callback has ended, the handler
\* logs the count and returns
NotifierAllSettled ==
  /\ notifier.pc = "awaitRecords"
  /\ \A k \in 1..Len(notifier.records) :
       notifier.records[k].pc \in {"sent", "caught"}
  /\ notifier' = [notifier EXCEPT !.pc = "done"]
  /\ UNCHANGED <<now, ssmConfig, db, maxConcurrent, schedVars, svc, runner,
                 sent, request, retrying>>

\* ------------------------------------------------------------- environment
\* time passes
Tick(instants) ==
  /\ \E t \in instants : t > now /\ now' = t
  /\ UNCHANGED <<ssmConfig, db, maxConcurrent, handlerVars, schedVars, svc, runner, sent>>

\* the table's TTL on expiresAt: DynamoDB deletes an expired item
Expire ==
  /\ \E key \in DOMAIN db :
       /\ db[key] # Null
       /\ db[key].expiresAt < now
       /\ db' = [db EXCEPT ![key] = Null]
  /\ UNCHANGED <<now, ssmConfig, maxConcurrent, handlerVars, schedVars, svc, runner, sent>>

\* the configuration parameter is given another value in the parameter
\* store while the program runs
ConfigChange(configs) ==
  /\ \E config \in configs : config # ssmConfig /\ ssmConfig' = config
  /\ UNCHANGED <<now, db, maxConcurrent, handlerVars, schedVars, svc, runner, sent>>

\* ------------------------------------------------- on-demand scraper handler
\* new ScraperService(); await scraperService.executeScraper(scraperId)
Invoke(scraperId) ==
  /\ \A w \in Ids : ~InFlight(w)
  /\ svc' = NewConfigService
  /\ runner' = [w \in Ids |->
       IF w = scraperId THEN ExecStart(w, NewConfigService) ELSE IdleRunner]
  /\ sent' = [w \in Ids |-> <<>>]
  /\ UNCHANGED <<now, ssmConfig, db, maxConcurrent, handlerVars, schedVars>>

\* the runner that holds the locals of executeScraper(scraperId): an
\* undefined scraperId is looked up like id 0, which no configuration holds
Slot(scraperId) == IF scraperId = NoId THEN 0 ELSE scraperId

Respond(statusCode, body) == [statusCode |-> statusCode, body |-> body]

\* the scraperId the handler takes from the event: [found, thrown, value]
ScraperIdOf(event) ==
  IF event.body # Null
  THEN IF Parse(event.body) = Null
       THEN [found |-> FALSE, thrown |-> TRUE, value |-> NoId]
       ELSE [found |-> TRUE, thrown |-> FALSE,
             value |-> Parse(event.body).scraperId]
  ELSE IF event.pathParameters # Null /\ event.pathParameters.scraperId # NoId
       THEN [found |-> TRUE, thrown |-> FALSE,
             value |-> event.pathParameters.scraperId]
       ELSE [found |-> FALSE, thrown |-> FALSE, value |-> NoId]

\* the handler from its call to its first await or return: new
\* ScraperService(), the request is parsed, then 400, or 500 from the
\* catch, or executeScraper(scraperId) is called
HandlerStart ==
  /\ request.pc = "start"
  /\ LET id == ScraperIdOf(request.event)
     IN IF id.found
        THEN /\ request' = [request EXCEPT !.pc = "await",
                                           !.invoked = Append(@, id.value)]
             /\ svc' = NewConfigService
             /\ runner' = [runner EXCEPT ![Slot(id.value)] =
                             ExecStart(Slot(id.value), NewConfigService)]
        ELSE /\ request' = [request EXCEPT !.pc = "returned",
                  !.response = IF id.thrown
                               THEN Respond(500, "Internal server error")
                               ELSE Respond(400, "Missing scraperId parameter")]
             /\ UNCHANGED <<svc, runner>>
  /\ UNCHANGED <<now, ssmConfig, db, maxConcurrent, schedVars, sent, notifier,
                 retrying>>

\* await scraperService.executeScraper(scraperId) settles: 200 with the
\* result, or 500 from the catch
HandlerReturn ==
  /\ request.pc = "await"
  /\ LET r == runner[Slot(request.invoked[1])]
     IN /\ r.pc = "settled"
        /\ request' = [request EXCEPT !.pc = "returned",
             !.response = IF r.settled.status = "fulfilled"
                          THEN Respond(200, r.settled.value)
                          ELSE Respond(500, "Internal server error")]
  /\ UNCHANGED <<now, ssmConfig, db, maxConcurrent, schedVars, svc, runner,
                 sent, notifier, retrying>>

\* Math.pow(2, n)
RECURSIVE Pow2(_)
Pow2(n) == IF n <= 0 THEN 1 ELSE 2 * Pow2(n - 1)

\* a backoff that grows by one delay per attempt
BackoffLinear(delay, n) == delay * (n + 1)

\* the argument of sleep after failed attempt n: delay * Math.pow(2, i)
Backoff(delay, n) == delay * Pow2(n)

\* retry: the test of the for loop, then the call of fn, or the throw
\* after the loop
RetryLoop ==
  /\ retrying.pc = "loop"
  /\ retrying' =
       IF retrying.i <= retrying.maxRetries
       THEN [retrying EXCEPT !.pc = "fn", !.calls = @ + 1]
       ELSE [retrying EXCEPT !.pc = "settled",
                             !.settled = Rejected(retrying.lastError)]
  /\ UNCHANGED <<now, ssmConfig, db, maxConcurrent, schedVars, svc, runner,
                 sent, notifier, request>>

\* retry: await fn() settles; a value is returned, an error is kept and
\* either thrown (i === maxRetries) or followed by sleep
RetryFnDone(outcomes) ==
  /\ retrying.pc = "fn"
  /\ \E outcome \in outcomes :
       retrying' =
         IF outcome.status = "fulfilled"
         THEN [retrying EXCEPT !.pc = "settled",
                               !.attempts = Append(@, outcome),
                               !.settled = Fulfilled(outcome.value)]
         ELSE IF retrying.i = retrying.maxRetries
         THEN [retrying EXCEPT !.pc = "settled",
                               !.attempts = Append(@, outcome),
                               !.lastError = outcome.reason,
                               !.settled = Rejected(outcome.reason)]
         ELSE [retrying EXCEPT !.pc = "sleep",
                               !.attempts = Append(@, outcome),
                               !.lastError = outcome.reason,
                               !.waits = Append(@, Backoff(retrying.delay,
                                                           retrying.i))]
  /\ UNCHANGED <<now, ssmConfig, db, maxConcurrent, schedVars, svc, runner,
                 sent, notifier, request>>

\* retry: sleep resolves, i++
RetrySleepDone ==
  /\ retrying.pc = "sleep"
  /\ retrying' = [retrying EXCEPT !.pc = "loop", !.i = @ + 1]
  /\ UNCHANGED <<now, ssmConfig, db, maxConcurrent, schedVars, svc, runner,
                 sent, notifier, request>>

\* ---------------------------------------------------------- specifications
ScraperConfig(id, enabled, marketplace, threshold) ==
  [id |-> id, enabled |-> enabled, marketplace |-> marketplace,
   priceMin |-> NoPrice, priceMax |-> NoPrice,
   includeKeywords |-> <<>>, excludeKeywords |-> <<>>,
   priceDropThreshold |-> threshold, notifications |-> NoChannels]

\* a record left in the table by an earlier run
Stored(scraperId, listingId, price) ==
  [Listing(scraperId, listingId, PlainTitle, price, 0)
     EXCEPT !.expiresAt = ExpiresAt(0)]

EmptyTable == [key \in Ids \X Items |-> Null]

\* the scheduler run: configurations of up to MaxWatchers scrapers with ids
\* 1..n, any of them disabled, any of them on an unsupported marketplace
SchedConfigs ==
  UNION {{[scrapers |-> [k \in 1..n |->
              ScraperConfig(k, en[k], mk[k], <<1, 10>>)]] :
            en \in [1..n -> BOOLEAN], mk \in [1..n -> Marketplaces]} :
         n \in 0..MaxWatchers}
SchedTables ==
  {EmptyTable,
   [key \in Ids \X Items |->
      IF key[2] = "a" THEN Stored(key[1], "a", 5000) ELSE Null]}
SchedPages == {<<>>, << <<"a", 4500, PlainTitle>> >>}

Init ==
  /\ now = 0
  /\ ssmConfig \in SchedConfigs
  /\ db \in SchedTables
  /\ maxConcurrent \in 1..MaxLimit
  /\ spc = "getEnabled"
  /\ enabledScrapers = <<>>
  /\ i = 0
  /\ batch = <<>>
  /\ results = <<>>
  /\ svc = NewConfigService
  /\ runner = [w \in Ids |-> IdleRunner]
  /\ sent = [w \in Ids |-> <<>>]
  /\ waves = <<>>
  /\ cooldowns = 0
  /\ timer = NoTime
  /\ notifier = IdleNotifier
  /\ request = IdleRequest
  /\ retrying = IdleRetry

Next ==
  \/ SchedGetEnabledDone
  \/ SchedBatchSettled
  \/ SchedCooldownDone
  \/ \E w \in Ids : GetConfigDone(w)
  \/ \E w \in Ids : InitializeDone(w)
  \/ \E w \in Ids : GetSecretsDone(w)
  \/ \E w \in Ids : ScrapeDone(w, SchedPages)
  \/ \E w \in Ids : GetListingDone(w)
  \/ \E w \in Ids : SaveListingDone(w)
  \/ \E w \in Ids : UpdateGetDone(w)
  \/ \E w \in Ids : UpdateSendDone(w)
  \/ \E w \in Ids : NotifyDone(w)
  \/ \E w \in Ids : CleanupDone(w)

Spec == Init /\ [][Next]_vars

\* the steps of the scheduler run that the event loop takes as soon as they
\* can be taken: every continuation of an await whose promise is settled by
\* the program itself or by a call that answers. The scrape is left out:
\* FacebookMarketplaceScraper.scrape is awaited with no timeout around it
\* (SCRAPER_TIMEOUTS is read nowhere) and page.evaluate and page.content
\* have none of their own, so nothing makes its promise settle.
Answered ==
  \/ SchedGetEnabledDone
  \/ SchedBatchSettled
  \/ SchedCooldownDone
  \/ \E w \in Ids : GetConfigDone(w)
  \/ \E w \in Ids : InitializeDone(w)
  \/ \E w \in Ids : GetSecretsDone(w)
  \/ \E w \in Ids : GetListingDone(w)
  \/ \E w \in Ids : SaveListingDone(w)
  \/ \E w \in Ids : UpdateGetDone(w)
  \/ \E w \in Ids : UpdateSendDone(w)
  \/ \E w \in Ids : NotifyDone(w)
  \/ \E w \in Ids : CleanupDone(w)

\* the scheduler run under that scheduling
SpecLive == Init /\ [][Next]_vars /\ WF_vars(Answered)

\* the on-demand runs of one scraper after another against a lasting table
RunConfigs ==
  {[scrapers |-> <<ScraperConfig(1, TRUE, "facebook", t),
                   ScraperConfig(2, FALSE, "facebook", t),
                   ScraperConfig(3, TRUE, "craigslist", t)>>] :
     t \in Thresholds}
RunPages == Pages({"a"} \X Prices \X {PlainTitle}, MaxListings)
RunClock == {0, LISTING_TTL + 1}

InitRun ==
  /\ now = 0
  /\ ssmConfig \in RunConfigs
  /\ db = EmptyTable
  /\ maxConcurrent = 1
  /\ spc = "off"
  /\ enabledScrapers = <<>>
  /\ i = 0
  /\ batch = <<>>
  /\ results = <<>>
  /\ svc = NewConfigService
  /\ runner = [w \in Ids |-> IdleRunner]
  /\ sent = [w \in Ids |-> <<>>]
  /\ waves = <<>>
  /\ cooldowns = 0
  /\ timer = NoTime
  /\ notifier = IdleNotifier
  /\ request = IdleRequest
  /\ retrying = IdleRetry

NextRun ==
  \/ \E w \in Ids : Invoke(w)
  \/ \E w \in Ids : GetConfigDone(w)
  \/ \E w \in Ids : InitializeDone(w)
  \/ \E w \in Ids : GetSecretsDone(w)
  \/ \E w \in Ids : ScrapeDone(w, RunPages)
  \/ \E w \in Ids : GetListingDone(w)
  \/ \E w \in Ids : SaveListingDone(w)
  \/ \E w \in Ids : UpdateGetDone(w)
  \/ \E w \in Ids : UpdateSendDone(w)
  \/ \E w \in Ids : NotifyDone(w)
  \/ \E w \in Ids : CleanupDone(w)
  \/ Tick(RunClock)
  \/ Expire

SpecRun == InitRun /\ [][NextRun]_vars

\* one on-demand run of scraper 1 with any setting of its three channels,
\* on a page of up to MaxListings listings of two items
DispatchConfigs ==
  {[scrapers |-> <<[ScraperConfig(1, TRUE, "facebook", <<1, 10>>)
                      EXCEPT !.notifications = n]>>] :
     n \in [ChannelNames -> ChannelSettings]}
DispatchTables ==
  {[key \in Ids \X Items |->
      IF key[1] = 1 /\ key[2] \in stored
      THEN Stored(1, key[2], 5000) ELSE Null] :
     stored \in SUBSET Items}
DispatchPages ==
  Pages({<<"a", 4500, PlainTitle>>, <<"b", 4500, PlainTitle>>,
         <<"b", 5000, PlainTitle>>}, MaxListings)

InitDispatch ==
  /\ now = 0
  /\ ssmConfig \in DispatchConfigs
  /\ db \in DispatchTables
  /\ maxConcurrent = 1
  /\ spc = "off"
  /\ enabledScrapers = <<>>
  /\ i = 0
  /\ batch = <<>>
  /\ results = <<>>
  /\ svc = NewConfigService
  /\ runner = [w \in Ids |-> IdleRunner]
  /\ sent = [w \in Ids |-> <<>>]
  /\ waves = <<>>
  /\ cooldowns = 0
  /\ timer = NoTime
  /\ notifier = IdleNotifier
  /\ request = IdleRequest
  /\ retrying = IdleRetry

NextDispatch ==
  \/ runner[1].pc = "idle" /\ Invoke(1)
  \/ GetConfigDone(1)
  \/ InitializeDone(1)
  \/ GetSecretsDone(1)
  \/ ScrapeDone(1, DispatchPages)
  \/ GetListingDone(1)
  \/ SaveListingDone(1)
  \/ UpdateGetDone(1)
  \/ UpdateSendDone(1)
  \/ ChannelDone(1)
  \/ NotifyDone(1)
  \/ CleanupDone(1)

SpecDispatch == InitDispatch /\ [][NextDispatch]_vars

\* a scheduler run of two enabled scrapers, in one wave or in two, each on
\* a page of up to MaxListings observations of the same item
WriteConfigs ==
  {[scrapers |-> <<ScraperConfig(1, TRUE, "facebook", <<1, 10>>),
                   ScraperConfig(2, TRUE, "facebook", <<1, 10>>)>>]}
WritePages == Pages({"a"} \X {4500, 5000} \X {PlainTitle}, MaxListings)

InitWrites ==
  /\ now = 0
  /\ ssmConfig \in WriteConfigs
  /\ db = EmptyTable
  /\ maxConcurrent \in 1..2
  /\ spc = "getEnabled"
  /\ enabledScrapers = <<>>
  /\ i = 0
  /\ batch = <<>>
  /\ results = <<>>
  /\ svc = NewConfigService
  /\ runner = [w \in Ids |-> IdleRunner]
  /\ sent = [w \in Ids |-> <<>>]
  /\ waves = <<>>
  /\ cooldowns = 0
  /\ timer = NoTime
  /\ notifier = IdleNotifier
  /\ request = IdleRequest
  /\ retrying = IdleRetry

NextWrites ==
  \/ SchedGetEnabledDone
  \/ SchedBatchSettled
  \/ SchedCooldownDone
  \/ \E w \in Ids : GetConfigDone(w)
  \/ \E w \in Ids : InitializeDone(w)
  \/ \E w \in Ids : GetSecretsDone(w)
  \/ \E w \in Ids : ScrapeDone(w, WritePages)
  \/ \E w \in Ids : GetListingDone(w)
  \/ \E w \in Ids : SaveListingDone(w)
  \/ \E w \in Ids : UpdateGetDone(w)
  \/ \E w \in Ids : UpdateSendDone(w)
  \/ \E w \in Ids : NotifyDone(w)
  \/ \E w \in Ids : CleanupDone(w)

SpecWrites == InitWrites /\ [][NextWrites]_vars

\* a scheduler run during which the configuration parameter is edited:
\* scraper 2 is disabled, removed, or given another threshold
ChangeConfigs ==
  {[scrapers |-> <<ScraperConfig(1, TRUE, "facebook", <<1, 10>>),
                   ScraperConfig(2, TRUE, "facebook", <<1, 10>>)>>],
   [scrapers |-> <<ScraperConfig(1, TRUE, "facebook", <<1, 10>>),
                   ScraperConfig(2, FALSE, "facebook", <<1, 10>>)>>],
   [scrapers |-> <<ScraperConfig(1, TRUE, "facebook", <<1, 10>>),
                   ScraperConfig(2, TRUE, "facebook", <<0, 1>>)>>],
   [scrapers |-> <<ScraperConfig(1, TRUE, "facebook", <<1, 10>>)>>]}

InitChange ==
  /\ now = 0
  /\ ssmConfig \in ChangeConfigs
  /\ db \in SchedTables
  /\ maxConcurrent \in 1..2
  /\ spc = "getEnabled"
  /\ enabledScrapers = <<>>
  /\ i = 0
  /\ batch = <<>>
  /\ results = <<>>
  /\ svc = NewConfigService
  /\ runner = [w \in Ids |-> IdleRunner]
  /\ sent = [w \in Ids |-> <<>>]
  /\ waves = <<>>
  /\ cooldowns = 0
  /\ timer = NoTime
  /\ notifier = IdleNotifier
  /\ request = IdleRequest
  /\ retrying = IdleRetry

NextChange ==
  \/ SchedGetEnabledDone
  \/ SchedBatchSettled
  \/ SchedCooldownDone
  \/ \E w \in Ids : GetConfigDone(w)
  \/ \E w \in Ids : InitializeDone(w)
  \/ \E w \in Ids : GetSecretsDone(w)
  \/ \E w \in Ids : ScrapeDone(w, SchedPages)
  \/ \E w \in Ids : GetListingDone(w)
  \/ \E w \in Ids : SaveListingDone(w)
  \/ \E w \in Ids : UpdateGetDone(w)
  \/ \E w \in Ids : UpdateSendDone(w)
  \/ \E w \in Ids : NotifyDone(w)
  \/ \E w \in Ids : CleanupDone(w)
  \/ ConfigChange(ChangeConfigs)

SpecChange == InitChange /\ [][NextChange]_vars

\* one on-demand run of scraper 1 with any setting of its price bounds and
\* keyword lists, Slack enabled, on a page of up to MaxListings elements
\* whose prices lie below, on and above the bounds and whose titles differ
\* from the keywords in case
Titles == {<<"C", "a", "b">>, <<"b", "A">>, <<"A", "B">>, <<"c">>}
IncludeLists == {<<>>, << <<"A", "b">> >>, << <<"c", "c">>, <<"B", "a">> >>}
ExcludeLists == {<<>>, << <<"C">> >>}
FilterConfigs ==
  {[scrapers |-> <<[ScraperConfig(1, TRUE, "facebook", <<1, 10>>)
                      EXCEPT !.priceMin = lo, !.priceMax = hi,
                             !.includeKeywords = inc, !.excludeKeywords = exc,
                             !.notifications =
                               [NoChannels EXCEPT !.slack = "enabled"]]>>] :
     lo \in {NoPrice, 4500}, hi \in {NoPrice, 4600},
     inc \in IncludeLists, exc \in ExcludeLists}
FilterPages == Pages({"a"} \X Prices \X Titles, MaxListings)

InitFilter ==
  /\ now = 0
  /\ ssmConfig \in FilterConfigs
  /\ db \in SchedTables
  /\ maxConcurrent = 1
  /\ spc = "off"
  /\ enabledScrapers = <<>>
  /\ i = 0
  /\ batch = <<>>
  /\ results = <<>>
  /\ svc = NewConfigService
  /\ runner = [w \in Ids |-> IdleRunner]
  /\ sent = [w \in Ids |-> <<>>]
  /\ waves = <<>>
  /\ cooldowns = 0
  /\ timer = NoTime
  /\ notifier = IdleNotifier
  /\ request = IdleRequest
  /\ retrying = IdleRetry

NextFilter ==
  \/ runner[1].pc = "idle" /\ Invoke(1)
  \/ GetConfigDone(1)
  \/ InitializeDone(1)
  \/ GetSecretsDone(1)
  \/ ScrapeDone(1, FilterPages)
  \/ GetListingDone(1)
  \/ SaveListingDone(1)
  \/ UpdateGetDone(1)
  \/ UpdateSendDone(1)
  \/ ChannelDone(1)
  \/ NotifyDone(1)
  \/ CleanupDone(1)

SpecFilter == InitFilter /\ [][NextFilter]_vars

\* a scheduler run of two enabled scrapers under a concurrency limit read
\* from the environment as -1, 0, 1 or 2; the loop is followed for at most
\* MaxWaves waves
InitLimit ==
  /\ now = 0
  /\ ssmConfig \in WriteConfigs
  /\ db \in SchedTables
  /\ maxConcurrent \in -1..2
  /\ spc = "getEnabled"
  /\ enabledScrapers = <<>>
  /\ i = 0
  /\ batch = <<>>
  /\ results = <<>>
  /\ svc = NewConfigService
  /\ runner = [w \in Ids |-> IdleRunner]
  /\ sent = [w \in Ids |-> <<>>]
  /\ waves = <<>>
  /\ cooldowns = 0
  /\ timer = NoTime
  /\ notifier = IdleNotifier
  /\ request = IdleRequest
  /\ retrying = IdleRetry

NextLimit ==
  \/ SchedGetEnabledDone
  \/ Len(waves) < MaxWaves /\ SchedBatchSettled
  \/ Len(waves) < MaxWaves /\ SchedCooldownDone
  \/ \E w \in Ids : GetConfigDone(w)
  \/ \E w \in Ids : InitializeDone(w)
  \/ \E w \in Ids : GetSecretsDone(w)
  \/ \E w \in Ids : ScrapeDone(w, SchedPages)
  \/ \E w \in Ids : GetListingDone(w)
  \/ \E w \in Ids : SaveListingDone(w)
  \/ \E w \in Ids : UpdateGetDone(w)
  \/ \E w \in Ids : UpdateSendDone(w)
  \/ \E w \in Ids : NotifyDone(w)
  \/ \E w \in Ids : CleanupDone(w)

SpecLimit == InitLimit /\ [][NextLimit]_vars

\* a scheduler run of two enabled scrapers in two waves that lasts for
\* minutes: the clock can move to 4 and to 8 minutes while it runs
CacheClock == {240, 480}

InitCache ==
  /\ now = 0
  /\ ssmConfig \in WriteConfigs
  /\ db \in SchedTables
  /\ maxConcurrent = 1
  /\ spc = "getEnabled"
  /\ enabledScrapers = <<>>
  /\ i = 0
  /\ batch = <<>>
  /\ results = <<>>
  /\ svc = NewConfigService
  /\ runner = [w \in Ids |-> IdleRunner]
  /\ sent = [w \in Ids |-> <<>>]
  /\ waves = <<>>
  /\ cooldowns = 0
  /\ timer = NoTime
  /\ notifier = IdleNotifier
  /\ request = IdleRequest
  /\ retrying = IdleRetry

NextCache ==
  \/ SchedGetEnabledDone
  \/ SchedBatchSettled
  \/ SchedCooldownDone
  \/ \E w \in Ids : GetConfigDone(w)
  \/ \E w \in Ids : InitializeDone(w)
  \/ \E w \in Ids : GetSecretsDone(w)
  \/ \E w \in Ids : ScrapeDone(w, SchedPages)
  \/ \E w \in Ids : GetListingDone(w)
  \/ \E w \in Ids : SaveListingDone(w)
  \/ \E w \in Ids : UpdateGetDone(w)
  \/ \E w \in Ids : UpdateSendDone(w)
  \/ \E w \in Ids : NotifyDone(w)
  \/ \E w \in Ids : CleanupDone(w)
  \/ Tick(CacheClock)

SpecCache == InitCache /\ [][NextCache]_vars

\* the notifier handler invoked with an SQS batch of up to MaxRecords
\* records, each body malformed or a payload with any channel settings
Bodies ==
  {[valid |-> FALSE, payload |-> Null]} \cup
  {[valid |-> TRUE, payload |-> [scraper |-> [notifications |-> n]]] :
     n \in [ChannelNames -> ChannelSettings]}
QueuedRecord(body) ==
  [body |-> body, pc |-> "queued", calls |-> 0, dispatch |-> Null]

InitNotifier ==
  /\ now = 0
  /\ ssmConfig \in WriteConfigs
  /\ db = EmptyTable
  /\ maxConcurrent = 1
  /\ spc = "off"
  /\ enabledScrapers = <<>>
  /\ i = 0
  /\ batch = <<>>
  /\ results = <<>>
  /\ svc = NewConfigService
  /\ runner = [w \in Ids |-> IdleRunner]
  /\ sent = [w \in Ids |-> <<>>]
  /\ waves = <<>>
  /\ cooldowns = 0
  /\ timer = NoTime
  /\ \E bodies \in SeqsUpTo(Bodies, MaxRecords) :
       notifier = [pc |-> "getSecrets",
                   records |-> [k \in 1..Len(bodies) |-> QueuedRecord(bodies[k])]]
  /\ request = IdleRequest
  /\ retrying = IdleRetry

NextNotifier ==
  \/ NotifierGetSecretsDone
  \/ NotifierChannelDone
  \/ NotifierRecordDone
  \/ NotifierAllSettled

SpecNotifier == InitNotifier /\ [][NextNotifier]_vars

\* one request to the on-demand handler: no body, a body that is not
\* JSON, or a JSON body with or without a scraperId; no path parameters,
\* or a scraperId path parameter
RequestBodies ==
  {Null, [valid |-> FALSE, payload |-> Null]} \cup
  {[valid |-> TRUE, payload |-> [scraperId |-> id]] : id \in {NoId, 1, 2, 3}}
RequestEvents ==
  {[body |-> b, pathParameters |-> pp] :
     b \in RequestBodies,
     pp \in {Null} \cup {[scraperId |-> id] : id \in {NoId, 1, 2}}}

InitRequest ==
  /\ now = 0
  /\ ssmConfig \in RunConfigs
  /\ db \in SchedTables
  /\ maxConcurrent = 1
  /\ spc = "off"
  /\ enabledScrapers = <<>>
  /\ i = 0
  /\ batch = <<>>
  /\ results = <<>>
  /\ svc = NewConfigService
  /\ runner = [w \in Ids |-> IdleRunner]
  /\ sent = [w \in Ids |-> <<>>]
  /\ waves = <<>>
  /\ cooldowns = 0
  /\ timer = NoTime
  /\ notifier = IdleNotifier
  /\ \E event \in RequestEvents :
       request = [IdleRequest EXCEPT !.pc = "start", !.event = event]
  /\ retrying = IdleRetry

NextRequest ==
  \/ HandlerStart
  \/ HandlerReturn
  \/ \E w \in Ids : GetConfigDone(w)
  \/ \E w \in Ids : InitializeDone(w)
  \/ \E w \in Ids : GetSecretsDone(w)
  \/ \E w \in Ids : ScrapeDone(w, SchedPages)
  \/ \E w \in Ids : GetListingDone(w)
  \/ \E w \in Ids : SaveListingDone(w)
  \/ \E w \in Ids : UpdateGetDone(w)
  \/ \E w \in Ids : UpdateSendDone(w)
  \/ \E w \in Ids : NotifyDone(w)
  \/ \E w \in Ids : CleanupDone(w)

SpecRequest == InitRequest /\ [][NextRequest]_vars

\* one call of retry: maxRetries from -1 (the loop body never runs) to
\* MaxRetries, which holds the default 3; the default delay and another;
\* each call of fn fulfils with a value or rejects with an error
RetryOutcomes ==
  {Fulfilled(v) : v \in {"v1", "v2"}} \cup {Rejected(e) : e \in {"e1", "e2"}}

InitRetry ==
  /\ now = 0
  /\ ssmConfig = <<>>
  /\ db = EmptyTable
  /\ maxConcurrent = 1
  /\ spc = "off"
  /\ enabledScrapers = <<>>
  /\ i = 0
  /\ batch = <<>>
  /\ results = <<>>
  /\ svc = NewConfigService
  /\ runner = [w \in Ids |-> IdleRunner]
  /\ sent = [w \in Ids |-> <<>>]
  /\ waves = <<>>
  /\ cooldowns = 0
  /\ timer = NoTime
  /\ notifier = IdleNotifier
  /\ request = IdleRequest
  /\ \E maxRetries \in -1..MaxRetries, delay \in {1000, 500} :
       retrying = [IdleRetry EXCEPT !.pc = "loop", !.maxRetries = maxRetries,
                                    !.delay = delay]

NextRetry ==
  \/ RetryLoop
  \/ RetryFnDone(RetryOutcomes)
  \/ RetrySleepDone

\* fn's promise settles and sleep's timer fires
SpecRetry == InitRetry /\ [][NextRetry]_vars /\ WF_vars(NextRetry)

\* ------------------------------------------------------------------ claims
Failed(w) == runner[w].faults # {}
ResultsOf(w) == {j \in 1..Len(results) : results[j].scraperId = w}

\* C1: fault isolation between watchers. The scheduler run rejects only
\* when the enabled scrapers cannot be read, before any runner starts; at
\* the end of a run every enabled watcher has settled and has exactly one
\* result, which is a failure exactly when that watcher's own run hit a
\* fault (whatever happened to the other watchers), and the result of a
\* watcher without a fault is the value its own executeScraper returned.
C1_FaultIsolation ==
  /\ spc = "rejected" => waves = <<>>
  /\ spc = "done" =>
       /\ Len(results) = Len(enabledScrapers)
       /\ \A k \in 1..Len(enabledScrapers) :
            LET w == enabledScrapers[k].id
            IN /\ IsSettled(w)
               /\ Cardinality(ResultsOf(w)) = 1
               /\ \A j \in ResultsOf(w) :
                    /\ results[j].success = ~Failed(w)
                    /\ ~Failed(w) => results[j] = runner[w].settled.value

\* three enabled watchers in one wave, only the second one's scrape throws:
\* the first and the third succeed, one failure out of three
C1_Witness ==
  /\ spc = "done"
  /\ Len(waves) = 1
  /\ Len(batch) = 3
  /\ runner[1].faults = {}
  /\ runner[2].faults = {"Failed to scrape"}
  /\ runner[3].faults = {}
  /\ Len(results) = 3
  /\ results[1].success /\ ~results[2].success /\ results[3].success
  /\ Cardinality({j \in 1..3 : ~results[j].success}) = 1

\* C2: executeScraper never rejects. Every settled call is fulfilled with a
\* result; a call that hit a fault has success = false with the error of a
\* fault it hit, and executionTime is a number.
C2_NeverRejects ==
  \A w \in Ids :
    IsSettled(w) =>
      /\ runner[w].settled.status = "fulfilled"
      /\ runner[w].settled.value.executionTime >= 0
      /\ Failed(w) => /\ ~runner[w].settled.value.success
                      /\ runner[w].settled.value.error \in runner[w].faults

InFlightSet == {w \in Ids : InFlight(w)}

\* C3: bounded concurrency. At any time the number of executeScraper calls
\* started and not settled is at most the concurrency limit.
C3_BoundedConcurrency == Cardinality(InFlightSet) <= maxConcurrent

\* the limit is reached while more enabled watchers than the limit exist
C3_Witness ==
  /\ maxConcurrent >= 2
  /\ Len(enabledScrapers) > maxConcurrent
  /\ Cardinality(InFlightSet) = maxConcurrent

StartedIn(wave) == {wave[k].id : k \in 1..Len(wave)}

\* C4: wave barrier. Every runner of every wave but the last started one
\* has settled, every runner of the last started wave has been started, and
\* no runner outside the started waves has been started.
C4_WaveBarrier ==
  /\ \A k \in 1..(Len(waves) - 1) : \A w \in StartedIn(waves[k]) : IsSettled(w)
  /\ Len(waves) > 0 =>
       \A w \in StartedIn(waves[Len(waves)]) : runner[w].pc # "idle"
  /\ \A w \in Ids :
       runner[w].pc # "idle" => \E k \in 1..Len(waves) : w \in StartedIn(waves[k])

\* a second wave is in flight after a first wave of two runners
C4_Witness ==
  /\ Len(waves) = 2
  /\ Len(waves[1]) = 2
  /\ \E w \in StartedIn(waves[2]) : InFlight(w)

\* C5: wave partitioning. With n enabled watchers and limit L >= 1, wave k
\* holds the watchers at (0-based) positions (k-1)*L .. min(k*L, n)-1 of the
\* enabled list in order; no wave is empty, every wave but the last has L
\* watchers, and a finished run has executed ceil(n/L) waves.
C5_WavePartitioning ==
  LET n == Len(enabledScrapers)
      L == maxConcurrent
  IN L >= 1 =>
       /\ \A k \in 1..Len(waves) :
            LET lo == (k - 1) * L
                hi == Min(k * L, n)
            IN /\ lo < hi
               /\ Len(waves[k]) = hi - lo
               /\ \A j \in 1..(hi - lo) : waves[k][j] = enabledScrapers[lo + j]
               /\ k < Len(waves) => Len(waves[k]) = L
       /\ spc = "done" => Len(waves) = (n + L - 1) \div L

\* three enabled watchers with limit 2 have run as waves of sizes 2 and 1
C5_Witness ==
  /\ spc = "done"
  /\ Len(enabledScrapers) = 3
  /\ maxConcurrent = 2
  /\ Len(waves) = 2
  /\ Len(waves[1]) = 2
  /\ Len(waves[2]) = 1

\* C6: inter-wave cooldown. No delay before the first wave; while a wave is
\* awaited and at the end of the run the delays taken number one less than
\* the waves started; a delay is running only when every started runner has
\* settled, a further wave exists and none of its runners has started.
C6_Cooldown ==
  LET n == Len(enabledScrapers)
      covered == Len(waves) * maxConcurrent
  IN /\ spc \in {"getEnabled", "returned", "rejected"} =>
          cooldowns = 0 /\ waves = <<>>
     /\ spc \in {"awaitBatch", "done"} =>
          Len(waves) >= 1 /\ cooldowns = Len(waves) - 1
     /\ spc = "cooldown" =>
          /\ cooldowns = Len(waves)
          /\ InFlightSet = {}
          /\ covered < n
          /\ \A k \in (covered + 1)..n : runner[enabledScrapers[k].id].pc = "idle"

\* a run of three waves has finished with two delays
C6_Witness ==
  /\ spc = "done"
  /\ Len(waves) = 3
  /\ cooldowns = 2

Threshold(w) == runner[w].scraperConfig.priceDropThreshold
DropsLogged(w) == SelectSeq(runner[w].log, LAMBDA e : e.outcome = "drop")
LastLogged(r) == r.log[Len(r.log)].outcome

\* C7: every listing in a run's priceDrops, and so every price_drop payload,
\* comes from an observation of a stored record whose price was above zero,
\* above the observed price, and above it by at least the threshold fraction
\* of the stored price.
C7_PriceDropSound ==
  \A w \in Ids :
    LET r == runner[w]
    IN /\ Len(DropsLogged(w)) = Len(r.priceDrops)
       /\ \A k \in 1..Len(r.priceDrops) :
            LET p == r.priceDrops[k]
                e == DropsLogged(w)[k]
                t == Threshold(w)
            IN /\ e.existing # Null
               /\ e.existing.price > 0
               /\ p.previousPrice = e.existing.price
               /\ p.price = e.listing.price
               /\ p.price < p.previousPrice
               /\ (p.previousPrice - p.price) * t[2] >= t[1] * p.previousPrice
       /\ \A j \in 1..Len(sent[w]) :
            sent[w][j].type = "price_drop" =>
              \E k \in 1..Len(r.priceDrops) : sent[w][j].listing = r.priceDrops[k]
       /\ (IsSettled(w) /\ r.settled.status = "fulfilled") =>
            r.settled.value.priceDrops \in {r.priceDrops, <<>>}

\* a drop from 5000 to 4500 under threshold 0.1 has been notified
C7_Witness ==
  \E w \in Ids :
    /\ runner[w].scraperConfig # Null
    /\ Threshold(w) = <<1, 10>>
    /\ \E j \in 1..Len(sent[w]) :
         /\ sent[w][j].type = "price_drop"
         /\ sent[w][j].listing.previousPrice = 5000
         /\ sent[w][j].listing.price = 4500

\* the Change Classifier of the specification
RefClassify(observed, stored, t) ==
  IF stored = Null THEN "NewItem"
  ELSE IF observed = stored.price THEN "Unchanged"
  ELSE IF /\ observed < stored.price
          /\ (stored.price - observed) * t[2] >= t[1] * stored.price
       THEN "PriceDrop"
       ELSE "Unchanged"

Classified(outcome) ==
  CASE outcome = "new" -> "NewItem"
    [] outcome = "drop" -> "PriceDrop"
    [] OTHER -> "Unchanged"

\* C8: for every observation whose store calls succeeded, what the run did
\* (new listing, price drop, or neither) is what the reference classifier
\* gives for the observed price, the record read and the threshold; the
\* percentage of a price_drop payload is the drop fraction times 100; stored
\* 5000 with threshold 0.1 is a drop at 4500 and no drop at 4600.
C8_MatchesClassifier ==
  \A w \in Ids :
    LET r == runner[w]
    IN /\ \A k \in 1..Len(r.log) :
            LET e == r.log[k]
            IN e.outcome \in {"new", "drop", "updated"} =>
                 /\ Classified(e.outcome) =
                      RefClassify(e.listing.price, e.existing, Threshold(w))
                 /\ (e.existing # Null /\ e.existing.price = 5000
                        /\ Threshold(w) = <<1, 10>>) =>
                      /\ e.listing.price = 4500 => e.outcome = "drop"
                      /\ e.listing.price = 4600 => e.outcome = "updated"
       /\ \A k \in 1..Len(r.priceDrops) :
            LET e == DropsLogged(w)[k]
                pct == DropPayload(r.priceDrops[k]).priceDropPercentage
            IN pct = <<(e.existing.price - e.listing.price) * 100,
                       e.existing.price>>
       /\ sent[w] \in {<<>>, Payloads(r)}

\* the boundary case: 5000 observed at 4500 under threshold 0.1 is a drop
C8_Witness ==
  \E w \in Ids :
    \E k \in 1..Len(runner[w].log) :
      LET e == runner[w].log[k]
      IN /\ e.outcome = "drop"
         /\ e.existing.price = 5000
         /\ e.listing.price = 4500
         /\ Threshold(w) = <<1, 10>>

\* C9: an observed listing with no stored record is treated as new whatever
\* its price: a successful read that finds no record is followed by the
\* saveListing call, and a successful saveListing leaves a record with the
\* observed price and no previousPrice and appends the listing to
\* newListings; a failed call leaves table and newListings as they were; a
\* call that is fulfilled with success returns that newListings.
C9_AbsentIsNew ==
  [][\A w \in Ids :
       LET r == runner[w]
           r2 == runner'[w]
       IN /\ (r.pc = "getListing" /\ r2 # r /\ db[Key(Current(r))] = Null) =>
               \/ r2.pc = "saveListing" /\ r2.idx = r.idx
               \/ Len(r2.log) = Len(r.log) + 1 /\ LastLogged(r2) = "error"
          /\ (r.pc = "saveListing" /\ r2 # r) =>
               LET listing == Current(r)
               IN \/ /\ LastLogged(r2) = "new"
                     /\ db'[Key(listing)] # Null
                     /\ db'[Key(listing)].price = listing.price
                     /\ db'[Key(listing)].previousPrice = NoPrice
                     /\ db'[Key(listing)].firstSeen = listing.firstSeen
                     /\ r2.newListings = Append(r.newListings, listing)
                  \/ /\ LastLogged(r2) = "error"
                     /\ db' = db
                     /\ r2.newListings = r.newListings
          /\ ( /\ r.pc # "settled" /\ r2.pc = "settled"
               /\ r2.settled.status = "fulfilled"
               /\ r2.settled.value.success ) =>
               r2.settled.value.newListings = r2.newListings]_vars

\* a listing priced 0 with no stored record has been saved and listed as new
C9_Witness ==
  \E w \in Ids :
    \E k \in 1..Len(runner[w].newListings) :
      LET listing == runner[w].newListings[k]
      IN /\ listing.price = 0
         /\ db[Key(listing)] # Null
         /\ db[Key(listing)].price = 0
         /\ \E j \in 1..Len(runner[w].log) :
              /\ runner[w].log[j].outcome = "new"
              /\ runner[w].log[j].listing = listing
              /\ runner[w].log[j].existing = Null

SamePrice(r) ==
  /\ r.existingListing # Null
  /\ Current(r).price = r.existingListing.price

\* C10: an observation of a stored listing at its stored price goes to
\* updateListingPrice; no step of that update changes newListings or
\* priceDrops or hands a payload for it to the notifier; and when the update
\* succeeds the record has the lastSeen of the observation and an expiry one
\* retention window after an instant between the observation and now.
C10_SamePriceRefresh ==
  [][\A w \in Ids :
       LET r == runner[w]
           r2 == runner'[w]
       IN /\ ( /\ r.pc = "getListing" /\ r2 # r
               /\ db[Key(Current(r))] # Null
               /\ db[Key(Current(r))].price = Current(r).price ) =>
               \/ r2.pc = "updateGet" /\ r2.idx = r.idx
               \/ Len(r2.log) = Len(r.log) + 1 /\ LastLogged(r2) = "error"
          /\ (r.pc \in {"updateGet", "updateSend"} /\ r2 # r /\ SamePrice(r)) =>
               LET listing == Current(r)
               IN /\ r2.newListings = r.newListings
                  /\ r2.priceDrops = r.priceDrops
                  /\ sent'[w] \in {sent[w], Payloads(r)}
                  /\ Len(r2.log) = Len(r.log) + 1 =>
                       LastLogged(r2) \in {"updated", "absent", "error"}
                  /\ (r.pc = "updateSend" /\ LastLogged(r2) = "updated") =>
                       /\ db'[Key(listing)].price = listing.price
                       /\ db'[Key(listing)].lastSeen = listing.lastSeen
                       /\ db'[Key(listing)].expiresAt >= listing.lastSeen + LISTING_TTL
                       /\ db'[Key(listing)].expiresAt <= now + LISTING_TTL]_vars

SamePriceLogged(e) ==
  /\ e.outcome = "updated"
  /\ e.existing # Null
  /\ e.existing.price = e.listing.price

\* a record created in an earlier run has been observed twice in a row at
\* its stored price, and carries the lastSeen of the later observation
C10_Witness ==
  \E w \in Ids :
    LET r == runner[w]
    IN /\ Len(r.log) = 2
       /\ SamePriceLogged(r.log[1])
       /\ SamePriceLogged(r.log[2])
       /\ r.newListings = <<>> /\ r.priceDrops = <<>>
       /\ db[Key(r.log[2].listing)] # Null
       /\ db[Key(r.log[2].listing)].lastSeen = r.log[2].listing.lastSeen
       /\ db[Key(r.log[2].listing)].firstSeen < r.log[2].listing.lastSeen
       /\ db[Key(r.log[2].listing)].firstSeen # NoTime

\* C11: a same-price observation never fabricates a previousPrice. When the
\* update of a listing observed at its stored price succeeds on a record
\* that has no previousPrice, the record has no previousPrice afterwards.
C11_NoFabricatedPrevious ==
  [][\A w \in Ids :
       LET r == runner[w]
           r2 == runner'[w]
           key == Key(Current(r))
       IN ( /\ r.pc = "updateSend" /\ r2 # r /\ SamePrice(r)
            /\ LastLogged(r2) = "updated"
            /\ db[key] # Null
            /\ db[key].price = Current(r).price
            /\ db[key].previousPrice = NoPrice ) =>
            db'[key].previousPrice = NoPrice]_vars

\* C12: previousPrice is the last different price. A successful update of a
\* stored record leaves as previousPrice the price the record held when the
\* observed price differs from it, and the previousPrice it already had
\* when the observed price is the stored one.
C12_PreviousIsLastDifferent ==
  [][\A w \in Ids :
       LET r == runner[w]
           r2 == runner'[w]
           key == Key(Current(r))
       IN ( /\ r.pc = "updateSend" /\ r2 # r
            /\ LastLogged(r2) \in {"updated", "drop"}
            /\ db[key] # Null ) =>
            db'[key].previousPrice =
              IF Current(r).price # db[key].price
              THEN db[key].price ELSE db[key].previousPrice]_vars

NoEventChange(r) ==
  /\ r.existingListing # Null
  /\ Current(r).price # r.existingListing.price
  /\ \/ Current(r).price > r.existingListing.price
     \/ LET t == r.scraperConfig.priceDropThreshold
        IN (r.existingListing.price - Current(r).price) * t[2]
             < t[1] * r.existingListing.price

\* C13: an observation of a stored listing at a higher price, or at a price
\* lower by less than the threshold, goes to updateListingPrice; no step of
\* that update changes newListings or priceDrops or hands a payload for it
\* to the notifier; and when the update succeeds the record has the
\* observed price and, as previousPrice, the price read before.
C13_ChangeWithoutEvent ==
  [][\A w \in Ids :
       LET r == runner[w]
           r2 == runner'[w]
       IN /\ ( /\ r.pc = "getListing" /\ r2 # r
               /\ db[Key(Current(r))] # Null
               /\ db[Key(Current(r))].price # Current(r).price ) =>
               \/ r2.pc = "updateGet" /\ r2.idx = r.idx
               \/ Len(r2.log) = Len(r.log) + 1 /\ LastLogged(r2) = "error"
          /\ (r.pc \in {"updateGet", "updateSend"} /\ r2 # r /\ NoEventChange(r)) =>
               LET listing == Current(r)
               IN /\ r2.newListings = r.newListings
                  /\ r2.priceDrops = r.priceDrops
                  /\ sent'[w] \in {sent[w], Payloads(r)}
                  /\ Len(r2.log) = Len(r.log) + 1 =>
                       LastLogged(r2) \in {"updated", "absent", "error"}
                  /\ (r.pc = "updateSend" /\ LastLogged(r2) = "updated") =>
                       /\ db'[Key(listing)].price = listing.price
                       /\ db'[Key(listing)].previousPrice = r.existingListing.price
                       /\ db'[Key(listing)].lastSeen = listing.lastSeen]_vars

ChangeLogged(e, from, to) ==
  /\ e.outcome = "updated"
  /\ e.existing # Null
  /\ e.existing.price = from
  /\ e.listing.price = to

\* under threshold 0.1 one run saw a stored 5000 fall to 4600 and then rise
\* to 5000: no event, and the record holds 5000 with previousPrice 4600
C13_Witness ==
  \E w \in Ids :
    LET r == runner[w]
    IN /\ Len(r.log) = 2
       /\ Threshold(w) = <<1, 10>>
       /\ ChangeLogged(r.log[1], 5000, 4600)
       /\ ChangeLogged(r.log[2], 4600, 5000)
       /\ r.newListings = <<>> /\ r.priceDrops = <<>>
       /\ sent[w] = <<>>
       /\ db[Key(r.log[2].listing)] # Null
       /\ db[Key(r.log[2].listing)].price = 5000
       /\ db[Key(r.log[2].listing)].previousPrice = 4600

Disabled(w) ==
  \E k \in 1..Len(ssmConfig.scrapers) :
    ssmConfig.scrapers[k].id = w /\ ~ssmConfig.scrapers[k].enabled

\* C14: a disabled watcher short-circuits. The only steps of an
\* executeScraper call on a scraper whose enabled flag is false are its
\* start and its return at the configuration read: that return leaves the
\* table and the payloads handed to the notifier as they were, creates no
\* scraper (no browser, no scrape, no listing processed), and, unless the
\* configuration could not be read, is fulfilled with success = true, empty
\* newListings and priceDrops and totalFound = 0.
C14_DisabledShortCircuit ==
  [][\A w \in Ids :
       LET r == runner[w]
           r2 == runner'[w]
       IN (Disabled(w) /\ r2 # r) =>
            \/ r2.pc = "getConfig" /\ r.pc \in {"idle", "settled"} /\ db' = db
            \/ r2 = IdleRunner
            \/ /\ r.pc = "getConfig" /\ r2.pc = "settled"
               /\ db' = db
               /\ sent'[w] = <<>>
               /\ r2.scraper = "null"
               /\ r2.scrapedListings = <<>>
               /\ r2.log = <<>>
               /\ r2.settled.status = "fulfilled"
               /\ r2.faults = {} =>
                    /\ r2.settled.value.scraperId = w
                    /\ r2.settled.value.success
                    /\ r2.settled.value.newListings = <<>>
                    /\ r2.settled.value.priceDrops = <<>>
                    /\ r2.settled.value.totalFound = 0
                    /\ r2.settled.value.executionTime >= 0]_vars

\* the disabled scraper 2 has been run, after a run of scraper 1 that left
\* a record in the table, and has returned success with nothing found
C14_Witness ==
  /\ Disabled(2)
  /\ runner[2].pc = "settled"
  /\ runner[2].faults = {}
  /\ runner[2].settled.value.success
  /\ runner[2].settled.value.totalFound = 0
  /\ runner[2].scraper = "null"
  /\ db[<<1, "a">>] # Null
  /\ db[<<2, "a">>] = Null

EnabledIds ==
  {ssmConfig.scrapers[k].id :
     k \in {j \in 1..Len(ssmConfig.scrapers) : ssmConfig.scrapers[j].enabled}}

\* C15: the scheduler runs enabled watchers only. Every scraper of every
\* wave, every started runner and every result belongs to a scraper whose
\* enabled flag is true, and once the enabled scrapers are read every one of
\* them is in the list the waves are cut from; with no enabled scraper the
\* handler returns (it does not reject) with no wave, no runner started, no
\* result and no delay, and it returns early in that case only.
C15_OnlyEnabledRun ==
  /\ \A k \in 1..Len(waves) : \A j \in 1..Len(waves[k]) :
       waves[k][j].enabled /\ waves[k][j].id \in EnabledIds
  /\ \A w \in Ids : runner[w].pc # "idle" => w \in EnabledIds
  /\ \A j \in 1..Len(results) : results[j].scraperId \in EnabledIds
  /\ spc \notin {"getEnabled", "rejected"} =>
       /\ {enabledScrapers[k].id : k \in 1..Len(enabledScrapers)} = EnabledIds
       /\ Len(enabledScrapers) = Cardinality(EnabledIds)
       /\ (spc = "returned") = (EnabledIds = {})
  /\ spc = "returned" =>
       /\ waves = <<>>
       /\ results = <<>>
       /\ cooldowns = 0
       /\ timer = NoTime
       /\ \A w \in Ids : runner[w] = IdleRunner /\ sent[w] = <<>>

\* of three configured scrapers the second is disabled: the run has
\* finished with the results of the first and the third
C15_Witness ==
  /\ spc = "done"
  /\ Len(ssmConfig.scrapers) = 3
  /\ EnabledIds = {1, 3}
  /\ Len(results) = 2
  /\ results[1].scraperId = 1
  /\ results[2].scraperId = 3
  /\ runner[2] = IdleRunner

PromiseSlots(r) ==
  {<<k, c>> \in (1..Len(r.notifications)) \X (1..Len(Channels)) :
     c <= Len(r.notifications[k].promises)}

\* no NotificationService call has thrown, and a call has returned exactly
\* when every one of its senders has settled
DispatchOk(r) ==
  \A k \in 1..Len(r.notifications) :
    LET d == r.notifications[k]
    IN /\ d.status # "rejected"
       /\ (d.status = "fulfilled") =
            (\A c \in 1..Len(d.promises) : d.promises[c].status # "pending")

\* C16: fan-out isolation between channels. Every sender of every payload
\* is called before any outcome is known; the settling of one sender,
\* fulfilled or rejected, changes the state of no other sender of the same
\* or of another payload (none is cancelled, none is failed with it); and
\* NotificationService.sendNotifications never throws: it returns once all
\* of its senders have settled, whatever their outcomes.
C16_ChannelIsolation ==
  [][\A w \in Ids :
       LET r == runner[w]
           r2 == runner'[w]
       IN /\ DispatchOk(r) /\ DispatchOk(r2)
          /\ (r.pc # "notify" /\ r2.pc = "notify") =>
               \A s \in PromiseSlots(r2) :
                 r2.notifications[s[1]].promises[s[2]].status = "pending"
          /\ (r.pc = "notify" /\ r2.pc = "notify" /\ r2 # r) =>
               /\ PromiseSlots(r2) = PromiseSlots(r)
               /\ Cardinality({s \in PromiseSlots(r) :
                    r2.notifications[s[1]].promises[s[2]] #
                      r.notifications[s[1]].promises[s[2]]}) = 1
               /\ \A s \in PromiseSlots(r) :
                    LET before == r.notifications[s[1]].promises[s[2]]
                        after == r2.notifications[s[1]].promises[s[2]]
                    IN /\ after.channel = before.channel
                       /\ before.status # "pending" => after = before
                       /\ after.status \in {"pending", "fulfilled", "rejected"}]_vars

SenderStatus(d, channel) ==
  {d.promises[c].status : c \in {j \in 1..Len(d.promises) :
                                   d.promises[j].channel = channel}}

\* for a new_listing payload the Slack sender has failed, the Telegram and
\* the Pushover senders have completed, and the call has returned
C16_Witness ==
  \E k \in 1..Len(runner[1].notifications) :
    LET d == runner[1].notifications[k]
    IN /\ sent[1][k].type = "new_listing"
       /\ SenderStatus(d, "slack") = {"rejected"}
       /\ SenderStatus(d, "telegram") = {"fulfilled"}
       /\ SenderStatus(d, "pushover") = {"fulfilled"}
       /\ d.status = "fulfilled"

EnabledChannels(w) ==
  {c \in ChannelNames : runner[w].scraperConfig.notifications[c] = "enabled"}

\* C17: for every payload dispatched, the senders called are those of the
\* channels that are configured with enabled true, each called once; a
\* channel that is absent or disabled is never called; with no enabled
\* channel no sender is called and the call returns at once.
C17_EnabledChannelsOnly ==
  \A w \in Ids :
    \A k \in 1..Len(runner[w].notifications) :
      LET d == runner[w].notifications[k]
      IN /\ {d.promises[c].channel : c \in 1..Len(d.promises)} = EnabledChannels(w)
         /\ Len(d.promises) = Cardinality(EnabledChannels(w))
         /\ EnabledChannels(w) = {} => d.promises = <<>> /\ d.status = "fulfilled"

\* Slack enabled, Telegram configured but disabled, Pushover absent: the
\* one sender called is Slack's, and it has completed
C17_Witness ==
  /\ runner[1].scraperConfig # Null
  /\ runner[1].scraperConfig.notifications =
       [c \in ChannelNames |->
          CASE c = "slack" -> "enabled"
            [] c = "telegram" -> "disabled"
            [] OTHER -> "absent"]
  /\ Len(runner[1].notifications) >= 1
  /\ runner[1].notifications[1].promises =
       <<[channel |-> "slack", status |-> "fulfilled", posts |-> 1]>>
  /\ runner[1].notifications[1].status = "fulfilled"

NewsLogged(w) == SelectSeq(runner[w].log, LAMBDA e : e.outcome = "new")
EventsLogged(w) ==
  SelectSeq(runner[w].log, LAMBDA e : e.outcome \in {"new", "drop"})

\* the run has come through processListings without a throw
Processed(r) == r.pc = "notify" \/ (r.ret # Null /\ r.ret.success)

\* C18: exactly-once dispatch. In a run that came through, the payloads
\* handed to the fan-out are one new_listing payload for each listing of
\* newListings, in order, followed by one price_drop payload for each
\* listing of priceDrops, in order, each with its own fan-out call; their
\* number is the number of listings processed as new or as a drop, so that
\* a listing left unchanged or whose processing failed has no payload.
C18_ExactlyOnceDispatch ==
  \A w \in Ids :
    LET r == runner[w]
        n == Len(r.newListings)
    IN Processed(r) =>
         /\ Len(sent[w]) = n + Len(r.priceDrops)
         /\ Len(r.notifications) = Len(sent[w])
         /\ \A k \in 1..n :
              /\ sent[w][k].type = "new_listing"
              /\ sent[w][k].listing = r.newListings[k]
              /\ NewsLogged(w)[k].listing = r.newListings[k]
         /\ \A k \in 1..Len(r.priceDrops) :
              /\ sent[w][n + k].type = "price_drop"
              /\ sent[w][n + k].listing = r.priceDrops[k]
              /\ DropsLogged(w)[k].listing.listingId = r.priceDrops[k].listingId
         /\ Len(NewsLogged(w)) = n
         /\ Len(DropsLogged(w)) = Len(r.priceDrops)
         /\ Len(EventsLogged(w)) = Len(sent[w])

\* a run saw a listing at an unchanged price and a new one: one payload
C18_Witness ==
  LET r == runner[1]
  IN /\ r.pc = "settled"
     /\ r.settled.status = "fulfilled"
     /\ r.settled.value.success
     /\ Len(r.log) = 2
     /\ r.log[1].outcome = "updated"
     /\ r.log[2].outcome = "new"
     /\ Len(sent[1]) = 1
     /\ sent[1][1].type = "new_listing"
     /\ sent[1][1].listing = r.log[2].listing

\* C19: a notification failure is not a run failure. When the await of
\* sendNotifications returns, whatever the outcomes of the senders, the run
\* goes on to return success = true with the newListings, the priceDrops
\* and the number of scraped listings, and records no fault; a call that is
\* then fulfilled is fulfilled with that result.
C19_NotifyFailureNotSurfaced ==
  [][\A w \in Ids :
       LET r == runner[w]
           r2 == runner'[w]
       IN /\ (r.pc = "notify" /\ r2.pc # "notify") =>
               /\ r2.pc = "cleanup"
               /\ r2.faults = r.faults
               /\ r2.ret.success
               /\ r2.ret.newListings = r.newListings
               /\ r2.ret.priceDrops = r.priceDrops
               /\ r2.ret.totalFound = Len(r.scrapedListings)
          /\ ( /\ r.pc = "cleanup" /\ r2.pc = "settled"
               /\ r2.settled.status = "fulfilled" ) =>
               r2.settled.value = r.ret]_vars

AllRejected(d) ==
  /\ Len(d.promises) = Len(Channels)
  /\ \A c \in 1..Len(d.promises) : d.promises[c].status = "rejected"

\* a new listing and a price drop, three enabled channels, all six senders
\* failed: the call is fulfilled with success and both lists
C19_Witness ==
  LET r == runner[1]
  IN /\ r.pc = "settled"
     /\ r.settled.status = "fulfilled"
     /\ r.settled.value.success
     /\ Len(r.settled.value.newListings) = 1
     /\ Len(r.settled.value.priceDrops) = 1
     /\ r.settled.value.totalFound = 2
     /\ Len(r.notifications) = 2
     /\ AllRejected(r.notifications[1])
     /\ AllRejected(r.notifications[2])

\* C20: per-item failure isolation. A store call that fails while a listing
\* is processed leaves the table, newListings and priceDrops as they were
\* and is not a fault of the run: the loop goes on with the next listing,
\* or, after the last one, to the notification or the successful return;
\* in a run that came through, every scraped listing has been processed and
\* newListings and priceDrops hold the listings processed as new and as a
\* drop, and no other.
C20_PerItemIsolation ==
  [][\A w \in Ids :
       LET r == runner[w]
           r2 == runner'[w]
       IN /\ ( /\ r.pc \in {"getListing", "saveListing", "updateGet", "updateSend"}
               /\ r2 # r
               /\ Len(r2.log) = Len(r.log) + 1
               /\ LastLogged(r2) = "error" ) =>
               /\ db' = db
               /\ r2.newListings = r.newListings
               /\ r2.priceDrops = r.priceDrops
               /\ r2.faults = r.faults
               /\ r2.log[Len(r2.log)].listing = Current(r)
               /\ IF r.idx < Len(r.scrapedListings)
                  THEN r2.pc = "getListing" /\ r2.idx = r.idx + 1
                  ELSE \/ r2.pc = "notify"
                       \/ r2.pc = "cleanup" /\ r2.ret.success
          /\ Processed(r2) =>
               /\ Len(r2.log) = Len(r2.scrapedListings)
               /\ \A k \in 1..Len(r2.log) : r2.log[k].listing = r2.scrapedListings[k]
               /\ r2.newListings =
                    [k \in 1..Len(r2.newListings) |->
                       SelectSeq(r2.log, LAMBDA e : e.outcome = "new")[k].listing]
               /\ Len(r2.priceDrops) =
                    Len(SelectSeq(r2.log, LAMBDA e : e.outcome = "drop"))
               /\ r2.ret # Null =>
                    /\ r2.ret.newListings = r2.newListings
                    /\ r2.ret.priceDrops = r2.priceDrops
                    /\ r2.ret.totalFound = Len(r2.scrapedListings)]_vars

\* the read of the first listing failed; the second, another item, was
\* saved as new, and the run returned success with it as its only event
C20_Witness ==
  LET r == runner[1]
  IN /\ r.pc = "settled"
     /\ r.settled.status = "fulfilled"
     /\ r.settled.value.success
     /\ Len(r.log) = 2
     /\ r.log[1].outcome = "error"
     /\ r.log[1].listing.listingId = "a"
     /\ r.log[2].outcome = "new"
     /\ r.log[2].listing.listingId = "b"
     /\ r.settled.value.newListings = <<r.log[2].listing>>
     /\ r.settled.value.priceDrops = <<>>
     /\ r.settled.value.totalFound = 2
     /\ db[<<1, "b">>] # Null
     /\ db[<<1, "a">>] = Null

ScrapeFailed(r) == "Failed to scrape" \in r.faults

\* C21: a failed scrape fails the whole run. When the call of
\* scraper.scrape rejects, executeScraper leaves the try with the failure
\* result (success = false, the error, empty newListings and priceDrops,
\* totalFound = 0) having processed no listing; from then on the call only
\* settles, without a write to the table and without a payload handed to
\* the notifier; and the entry of the scheduler's result list for that
\* watcher is a failure with an error, empty lists and totalFound = 0.
C21_CollectorFailureFailsRun ==
  [][\A w \in Ids :
       LET r == runner[w]
           r2 == runner'[w]
       IN /\ (r.pc = "scrape" /\ r2 # r /\ ScrapeFailed(r2)) =>
               /\ r2.pc = "cleanup"
               /\ ~r2.ret.success
               /\ r2.ret.error = "Failed to scrape"
               /\ r2.ret.newListings = <<>>
               /\ r2.ret.priceDrops = <<>>
               /\ r2.ret.totalFound = 0
               /\ r2.log = <<>>
               /\ r2.notifications = <<>>
               /\ db' = db
               /\ sent'[w] = <<>>
          /\ (ScrapeFailed(r) /\ r2 # r) =>
               /\ r2.pc = "settled"
               /\ r2.log = <<>>
               /\ r2.notifications = <<>>
               /\ db' = db
               /\ sent'[w] = <<>>
               /\ r2.settled.status = "fulfilled" => r2.settled.value = r.ret
          /\ \A j \in 1..Len(results') :
               (results'[j].scraperId = w /\ ScrapeFailed(r2)) =>
                 /\ ~results'[j].success
                 /\ results'[j].error \in r2.faults
                 /\ results'[j].newListings = <<>>
                 /\ results'[j].priceDrops = <<>>
                 /\ results'[j].totalFound = 0]_vars

\* the scrape of a watcher whose listing is in the table has failed: its
\* result is the failure, and the record is as an earlier run left it
C21_Witness ==
  /\ spc = "done"
  /\ \E j \in 1..Len(results) :
       LET w == results[j].scraperId
       IN /\ results[j].error = "Failed to scrape"
          /\ ~results[j].success
          /\ ScrapeFailed(runner[w])
          /\ db[<<w, "a">>] = Stored(w, "a", 5000)

\* C22: guaranteed release. A call of executeScraper that has settled
\* after launching a browser has awaited cleanup, on every path (success,
\* failed secrets, failed scrape, after processing and notifying): the
\* browser is closed, unless browser.close() itself failed, in which case
\* the call has rejected with that failure. A call that launched no
\* browser settles without a cleanup to wait for.
C22_BrowserReleased ==
  \A w \in Ids :
    LET r == runner[w]
    IN /\ IsSettled(w) =>
            \/ r.scraper \in {"null", "created", "closed"}
            \/ /\ r.scraper = "open"
               /\ r.settled.status = "rejected"
               /\ "Failed to close browser" \in r.faults
       /\ r.scraper = "closed" => IsSettled(w)
       /\ (r.pc \notin {"idle", "getConfig", "initialize", "cleanup", "settled"}) =>
            r.scraper = "open"

\* the secrets could not be read after the browser was launched: the call
\* has settled with the failure and the browser is closed
C22_Witness ==
  /\ IsSettled(1)
  /\ runner[1].faults = {"Failed to load secrets"}
  /\ runner[1].scraper = "closed"
  /\ runner[1].settled.status = "fulfilled"
  /\ ~runner[1].settled.value.success

WaveSlots(w) ==
  {s \in (1..Len(waves)) \X (1..MaxWatchers) :
     s[2] <= Len(waves[s[1]]) /\ waves[s[1]][s[2]].id = w}

\* C23: each enabled watcher runs once. A runner leaves idle only by being
\* started, never returns to idle, and once settled never changes (it is
\* not run again by a later wave); a watcher is in at most one wave, once;
\* the k-th result is that of the k-th enabled watcher; and at the end of
\* the run every enabled watcher has been in a wave, has settled, and has
\* its one result.
C23_RunOnce ==
  [][/\ \A w \in Ids :
          LET r == runner[w]
              r2 == runner'[w]
          IN /\ (r.pc = "idle" /\ r2 # r) => r2.pc = "getConfig"
             /\ r.pc # "idle" => r2.pc # "idle"
             /\ r.pc = "settled" => r2 = r
             /\ Cardinality(WaveSlots(w))' <= 1
             /\ (r2.pc # "idle") = (Cardinality(WaveSlots(w))' = 1)
     /\ Len(results') <= Len(enabledScrapers')
     /\ \A k \in 1..Len(results') :
          results'[k].scraperId = enabledScrapers'[k].id
     /\ spc' = "done" =>
          /\ Len(results') = Len(enabledScrapers')
          /\ \A k \in 1..Len(enabledScrapers') :
               runner'[enabledScrapers'[k].id].pc = "settled"]_vars

\* three enabled watchers have run in two waves; the second failed, the
\* others succeeded, and the results are theirs in the order 1, 2, 3
C23_Witness ==
  /\ spc = "done"
  /\ Len(waves) = 2
  /\ Len(results) = 3
  /\ \A k \in 1..3 : results[k].scraperId = k /\ enabledScrapers[k].id = k
  /\ results[1].success /\ ~results[2].success /\ results[3].success

\* the sum of F over the results, taken from the last result backwards
RECURSIVE TotalUpTo(_, _)
TotalUpTo(F(_), n) == IF n = 0 THEN 0 ELSE F(results[n]) + TotalUpTo(F, n - 1)

\* C24: the summary agrees with the results. At the end of a scheduler run
\* the total of watchers is the number of results and the number of enabled
\* watchers; successful and failed are the numbers of results with and
\* without success and add up to the total; found, new and drops are the
\* sums of totalFound, of the lengths of newListings and of priceDrops over
\* the results; the average execution time is the sum of executionTime
\* over the number of results, which is not zero.
C24_SummaryConsistent ==
  spc = "done" =>
    LET summary == Summary(results, enabledScrapers)
        n == Len(results)
    IN /\ summary.totalScrapers = n
       /\ summary.totalScrapers = Cardinality(EnabledIds)
       /\ summary.successful = Cardinality({j \in 1..n : results[j].success})
       /\ summary.failed = Cardinality({j \in 1..n : ~results[j].success})
       /\ summary.successful + summary.failed = summary.totalScrapers
       /\ summary.totalFound = TotalUpTo(LAMBDA r : r.totalFound, n)
       /\ summary.totalNew = TotalUpTo(LAMBDA r : Len(r.newListings), n)
       /\ summary.totalDrops = TotalUpTo(LAMBDA r : Len(r.priceDrops), n)
       /\ summary.avgExecutionTime[1] = TotalUpTo(LAMBDA r : r.executionTime, n)
       /\ summary.avgExecutionTime[2] = n
       /\ n > 0

\* three watchers have run: one failed, one found a price drop, one found
\* nothing; the summary counts 3 watchers, 2 successes, 1 found, 1 drop
C24_Witness ==
  /\ spc = "done"
  /\ Len(results) = 3
  /\ ~results[1].success
  /\ Len(results[2].priceDrops) = 1
  /\ results[3].success /\ results[3].totalFound = 0
  /\ Summary(results, enabledScrapers).totalScrapers = 3
  /\ Summary(results, enabledScrapers).successful = 2
  /\ Summary(results, enabledScrapers).failed = 1
  /\ Summary(results, enabledScrapers).totalFound = 1
  /\ Summary(results, enabledScrapers).totalNew = 0
  /\ Summary(results, enabledScrapers).totalDrops = 1

\* C25: what the scheduler run throws and what it captures. The run can
\* reject only while it reads the enabled scrapers, with no wave formed, no
\* runner started and no result; once the read has succeeded it never
\* rejects, whatever happens in the runners, and at its end every watcher
\* whose run hit a fault (configuration, browser, secrets, scrape, or a
\* rejected promise) has a failure with one of its errors in the result
\* list, while a failed store call on a listing leaves its run a success.
C25_ErrorPropagation ==
  [][/\ spc' = "rejected" =>
          /\ spc \in {"getEnabled", "rejected"}
          /\ waves' = <<>>
          /\ results' = <<>>
          /\ \A w \in Ids : runner'[w] = IdleRunner
     /\ spc \in {"awaitBatch", "cooldown", "done", "returned"} =>
          spc' \in {"awaitBatch", "cooldown", "done", "returned"}
     /\ spc' = "done" =>
          \A k \in 1..Len(enabledScrapers') :
            LET w == enabledScrapers'[k].id
                r2 == runner'[w]
            IN /\ results'[k].scraperId = w
               /\ r2.faults # {} =>
                    ~results'[k].success /\ results'[k].error \in r2.faults
               /\ r2.settled.status = "rejected" =>
                    results'[k].error = r2.settled.reason
               /\ r2.faults = {} => results'[k].success]_vars

\* a run has ended normally although one executeScraper promise rejected
\* and another watcher's store call failed on a listing: the first is a
\* failure in the results, the second a success
C25_Witness ==
  /\ spc = "done"
  /\ Len(results) >= 2
  /\ IsSettled(1) /\ IsSettled(2)
  /\ runner[1].settled.status = "rejected"
  /\ ~results[1].success
  /\ results[1].error = "Failed to close browser"
  /\ runner[2].faults = {}
  /\ Len(runner[2].log) = 1
  /\ runner[2].log[1].outcome = "error"
  /\ results[2].success

\* C26: retries at the external-call boundary. A run that failed on the
\* scrape has called scraper.scrape more than once, and a sender that
\* has failed has made its axios.post more than once.
C26_RetriedBeforeFailure ==
  \A w \in Ids :
    LET r == runner[w]
    IN /\ ScrapeFailed(r) => r.scrapeCalls >= 2
       /\ \A s \in PromiseSlots(r) :
            LET promise == r.notifications[s[1]].promises[s[2]]
            IN promise.status = "rejected" => promise.posts >= 2

\* C27: bounded waiting. Every scrape that has been called eventually
\* comes back, as listings or as a failure of its watcher, and the
\* scheduler run eventually completes.
C27_BoundedWaiting ==
  /\ \A w \in Ids : (runner[w].pc = "scrape") ~> (runner[w].pc # "scrape")
  /\ <>(spc \in {"done", "returned", "rejected"})

\* a PutCommand or an UpdateCommand of runner w is in flight
WriteInFlight(w) == runner[w].pc \in {"saveListing", "updateSend"}
WriteKey(w) == Key(Current(runner[w]))
\* the observations of runner r that were written under the key, by position
WritesOf(r, key) ==
  {j \in 1..Len(r.log) :
     /\ Key(r.log[j].listing) = key
     /\ r.log[j].outcome \in {"new", "updated", "drop"}}
LastOf(js) == CHOOSE j \in js : \A k \in js : k <= j

\* C28: writes to one key are serialized. Within a scheduler run no two
\* runners ever have a write to the same (scraperId, listingId) in flight
\* together; a record changes only by the one write in flight on its key
\* and takes the price and lastSeen of the observation being processed; at
\* the end of the run the record of a key is the one of the last
\* observation written under it.
C28_WritesSerialized ==
  [][/\ \A w1 \in Ids, w2 \in Ids :
          (w1 # w2 /\ WriteInFlight(w1)' /\ WriteInFlight(w2)') =>
            WriteKey(w1)' # WriteKey(w2)'
     /\ \A key \in Ids \X Items :
          db'[key] # db[key] =>
            \E w \in Ids :
              /\ WriteInFlight(w) /\ WriteKey(w) = key
              /\ \A w2 \in Ids \ {w} : ~(WriteInFlight(w2) /\ WriteKey(w2) = key)
              /\ db'[key].price = Current(runner[w]).price
              /\ db'[key].lastSeen = Current(runner[w]).lastSeen
     /\ spc' = "done" =>
          \A w \in Ids, key \in Ids \X Items :
            LET r == runner'[w]
            IN WritesOf(r, key) # {} =>
                 db'[key].price = r.log[LastOf(WritesOf(r, key))].listing.price
    ]_vars

\* both scrapers of a wave have a write in flight together, and one of
\* them is on the second observation of its item
C28_Witness ==
  /\ WriteInFlight(1) /\ WriteInFlight(2)
  /\ runner[1].idx = 2
  /\ Current(runner[1]).price # runner[1].scrapedListings[1].price
  /\ db[WriteKey(1)] # Null

\* C29: one configuration snapshot for the run. Every runner that the
\* scheduler started works with the definition its scraper was selected
\* with: it is not reported as not found, it does not return as disabled,
\* and the definition it runs with is the one in the scheduler's list.
C29_SameSnapshot ==
  \A w \in Ids :
    LET r == runner[w]
    IN r.pc # "idle" =>
         /\ "Scraper configuration not found" \notin r.faults
         /\ ~(r.pc = "settled" /\ r.scraperConfig = Null /\ r.faults = {})
         /\ r.scraperConfig # Null =>
              r.scraperConfig = Find(enabledScrapers, w)

\* C30: firstSeen is set at creation and kept, lastSeen follows every
\* observation. Whenever a write changes the table, the record it leaves
\* has the lastSeen of the observation being written; a record that
\* appears under a key has that observation's time as its firstSeen; and
\* a record that was there before keeps the firstSeen it had.
C30_FirstSeenKept ==
  [][\A key \in Ids \X Items :
       (db'[key] # db[key] /\ db'[key] # Null) =>
         \E w \in Ids :
           LET listing == Current(runner[w])
           IN /\ WriteInFlight(w) /\ WriteKey(w) = key
              /\ db'[key].lastSeen = listing.lastSeen
              /\ db'[key].firstSeen =
                   IF db[key] = Null THEN listing.firstSeen
                                     ELSE db[key].firstSeen]_vars

\* C31: every write sets the expiry to the time of the write plus the
\* retention window. The command of a saveListing or updateListingPrice
\* call carries the instant it is built plus LISTING_TTL, the record a
\* write leaves has the expiry of its command, and no stored record
\* expires less than LISTING_TTL after the observation it holds.
C31_ExpiryOnEveryWrite ==
  [][/\ \A w \in Ids :
          LET r == runner[w]
              r2 == runner'[w]
          IN /\ (r.pc \in {"getListing", "updateGet"} /\ WriteInFlight(w)') =>
                  r2.command.expiresAt = now + LISTING_TTL
             /\ ( /\ WriteInFlight(w)
                  /\ db'[WriteKey(w)] # db[WriteKey(w)]
                  /\ db'[WriteKey(w)] # Null ) =>
                  db'[WriteKey(w)].expiresAt = r.command.expiresAt
     /\ \A key \in Ids \X Items :
          db'[key] # Null => db'[key].expiresAt >= db'[key].lastSeen + LISTING_TTL
    ]_vars

\* a record created at instant 0 has been updated at a later instant and
\* expires one retention window after that later instant
C31_Witness ==
  \E key \in Ids \X Items :
    /\ db[key] # Null
    /\ db[key].firstSeen = 0
    /\ now > 0
    /\ db[key].lastSeen = now
    /\ db[key].expiresAt = now + LISTING_TTL

\* C32: an absent record at the update is an error for that item. When the
\* read inside updateListingPrice finds no record under the key of the
\* listing being processed, the listing ends on the catch path of
\* processListings.
C32_AbsentIsError ==
  [][\A w \in Ids :
       LET r == runner[w]
           r2 == runner'[w]
       IN (r.pc = "updateGet" /\ r2 # r /\ db[Key(Current(r))] = Null) =>
            /\ Len(r2.log) = Len(r.log) + 1
            /\ LastLogged(r2) = "error"]_vars

\* the filters as the watcher's definition states them
InBounds(price, config) ==
  /\ config.priceMin # NoPrice => config.priceMin <= price
  /\ config.priceMax # NoPrice => price <= config.priceMax
Mentions(title, keyword) == Includes(ToLowerCase(title), ToLowerCase(keyword))
WithinFilters(listing, config) ==
  /\ InBounds(listing.price, config)
  /\ config.includeKeywords # <<>> =>
       \E k \in 1..Len(config.includeKeywords) :
         Mentions(listing.title, config.includeKeywords[k])
  /\ \A k \in 1..Len(config.excludeKeywords) :
       ~Mentions(listing.title, config.excludeKeywords[k])
Observed(r, listing) ==
  \E k \in 1..Len(r.scrapedListings) :
    /\ Key(r.scrapedListings[k]) = Key(listing)
    /\ r.scrapedListings[k].price = listing.price

C34_PersistBeforeEmit ==
  [][\A w \in Ids :
       LET r == runner[w]
           r2 == runner'[w]
       IN /\ r2.newListings # r.newListings /\ r.pc # "idle" =>
               /\ r.pc = "saveListing"
               /\ r2.newListings = Append(r.newListings, Current(r))
               /\ db'[Key(Current(r))] = PutItem(Current(r), r.command)
          /\ r2.priceDrops # r.priceDrops /\ r.pc # "idle" =>
               /\ r.pc = "updateSend"
               /\ r2.priceDrops = Append(r.priceDrops, db'[Key(Current(r))])
               /\ db'[Key(Current(r))].price = Current(r).price
          /\ r2.pc = "settled" =>
               /\ \A k \in 1..Len(r2.newListings) :
                    /\ db'[Key(r2.newListings[k])] # Null
                    /\ db'[Key(r2.newListings[k])].price = r2.newListings[k].price
               /\ \A k \in 1..Len(r2.priceDrops) :
                    /\ db'[Key(r2.priceDrops[k])] # Null
                    /\ db'[Key(r2.priceDrops[k])].price = r2.priceDrops[k].price]_vars

\* the listings a run reports as events, new ones first
Events(r) == r.newListings \o r.priceDrops

\* C35: at most one event per item in a run. No two entries of the new
\* and price-drop lists of a run have the same (scraperId, listingId), and
\* no two payloads handed to the notifier are about the same listing.
C35_OneEventPerItem ==
  \A w \in Ids :
    LET r == runner[w]
    IN /\ \A a \in 1..Len(Events(r)), b \in 1..Len(Events(r)) :
            a # b => Key(Events(r)[a]) # Key(Events(r)[b])
       /\ \A a \in 1..Len(sent[w]), b \in 1..Len(sent[w]) :
            a # b => Key(sent[w][a].listing) # Key(sent[w][b].listing)

\* C36: the wave loop ends for every integer limit. Whatever integer the
\* concurrency limit is, no wave of the run is empty, the run has at most
\* as many waves as enabled scrapers, and it ends with one result for each
\* enabled scraper.
C36_LoopTerminates ==
  /\ \A k \in 1..Len(waves) : waves[k] # <<>>
  /\ Len(waves) <= Len(enabledScrapers)
  /\ spc = "done" => Len(results) = Len(enabledScrapers)

\* C37: cache freshness. A getConfig call answered from the cache returns
\* a configuration fetched at most CACHE_TTL before the call, a getSecrets
\* call answered from the cache returns secrets fetched at most CACHE_TTL
\* before the call, and a fetch that fails leaves the cache as it was.
C37_CacheFresh ==
  [][\A w \in Ids :
       LET r == runner[w]
           r2 == runner'[w]
       IN /\ (r.pc # "getConfig" /\ r2.pc = "getConfig" /\ r2.pending.hit) =>
               now - svc.configFetchedAt <= CACHE_TTL
          /\ (r.pc # "getSecrets" /\ r2.pc = "getSecrets" /\ r2.pending.hit) =>
               now - svc.secretsFetchedAt <= CACHE_TTL
          /\ ( /\ r.pc \in {"getConfig", "getSecrets"}
               /\ r2.faults # r.faults ) => svc' = svc]_vars

\* the records whose state a step changes
Touched == {k \in 1..Len(notifier.records) : notifier'.records[k] # notifier.records[k]}

\* C38: record isolation in the notifier handler. The handler rejects only
\* from the secrets read, and then no record has been processed; once the
\* secrets are read the callback of every record has run exactly once; a
\* step that settles a delivery or ends a callback changes that record
\* alone; and when the handler returns, every malformed record has been
\* caught and every other record has a settled delivery on each of its
\* enabled channels and on no other.
C38_RecordIsolation ==
  [][LET records == notifier'.records
     IN /\ notifier'.pc = "rejected" =>
             /\ notifier.pc \in {"getSecrets", "rejected"}
             /\ \A k \in 1..Len(records) :
                  records[k].calls = 0 /\ records[k].pc = "queued"
        /\ notifier'.pc \in {"awaitRecords", "done"} =>
             \A k \in 1..Len(records) : records[k].calls = 1
        /\ notifier.pc = "awaitRecords" => Cardinality(Touched) <= 1
        /\ notifier'.pc = "done" =>
             \A k \in 1..Len(records) :
               IF records[k].body.valid
               THEN /\ records[k].pc = "sent"
                    /\ {records[k].dispatch.promises[c].channel :
                          c \in 1..Len(records[k].dispatch.promises)}
                       = {c \in ChannelNames :
                            records[k].body.payload.scraper.notifications[c] = "enabled"}
                    /\ \A c \in 1..Len(records[k].dispatch.promises) :
                         records[k].dispatch.promises[c].status # "pending"
               ELSE records[k].pc = "caught"]_vars

\* the handler has returned from a batch whose first record was malformed
\* and whose second record had one delivery fail and another succeed
C38_Witness ==
  /\ notifier.pc = "done"
  /\ Len(notifier.records) = 2
  /\ notifier.records[1].pc = "caught"
  /\ notifier.records[2].pc = "sent"
  /\ \E a, b \in 1..Len(notifier.records[2].dispatch.promises) :
       /\ notifier.records[2].dispatch.promises[a].status = "rejected"
       /\ notifier.records[2].dispatch.promises[b].status = "fulfilled"

\* what the request supplies, read from the event as the claim reads it
BodyId(event) ==
  IF event.body # Null /\ event.body.valid
  THEN event.body.payload.scraperId ELSE NoId
PathId(event) ==
  IF event.pathParameters # Null THEN event.pathParameters.scraperId ELSE NoId
Unparseable(event) == event.body # Null /\ ~event.body.valid

\* C39: the answers of the on-demand handler. A request that supplies no
\* scraperId, in the body or in the path, never reaches executeScraper and
\* is answered 400; a scraperId in the body is the one used; a request
\* that reached executeScraper is answered 200 with that call's result;
\* a body that does not parse is answered 500.
C39_HandlerAnswers ==
  LET event == request.event
      response == request.response
  IN request.pc # "off" =>
       /\ (~Unparseable(event) /\ BodyId(event) = NoId /\ PathId(event) = NoId) =>
            /\ request.invoked = <<>>
            /\ response # Null => response.statusCode = 400
       /\ (request.invoked # <<>> /\ BodyId(event) # NoId) =>
            request.invoked = <<BodyId(event)>>
       /\ (request.invoked # <<>> /\ response # Null) =>
            /\ response.statusCode = 200
            /\ response.body = runner[Slot(request.invoked[1])].settled.value
       /\ (Unparseable(event) /\ response # Null) => response.statusCode = 500

\* the attempts of a call of retry that failed
FailedAttempts ==
  SelectSeq(retrying.attempts, LAMBDA o : o.status = "rejected")

C40_Bounded ==
  LET n == Len(retrying.attempts)
      failed == Len(FailedAttempts)
  IN (retrying.pc # "off" /\ retrying.maxRetries >= 0) =>
       /\ retrying.calls <= retrying.maxRetries + 1
       /\ retrying.calls = n + (IF retrying.pc = "fn" THEN 1 ELSE 0)
       /\ \A k \in 1..n :
            retrying.attempts[k].status = "fulfilled" =>
              /\ k = n
              /\ retrying.settled = Fulfilled(retrying.attempts[k].value)
       /\ (failed = retrying.maxRetries + 1) =>
            retrying.settled = Rejected(retrying.attempts[n].reason)
       /\ (retrying.settled # Null /\ retrying.settled.status = "rejected") =>
            failed = retrying.maxRetries + 1
       /\ Len(retrying.waits) = Min(failed, retrying.maxRetries)
       /\ \A k \in 1..Len(retrying.waits) :
            retrying.waits[k] = retrying.delay * (2 ^ (k - 1))

\* C40: a call of retry with maxRetries >= 0 calls fn at most maxRetries+1
\* times, makes no call after a success and returns that attempt's value,
\* rejects with the last attempt's error exactly when all maxRetries+1
\* attempts failed, waits delay * 2^i after failed attempt i except after
\* the final one, and settles in the end.
C40_Retry ==
  /\ []C40_Bounded
  /\ (retrying.pc # "off" /\ retrying.maxRetries >= 0)
       => <>(retrying.pc = "settled")

\* all of the default 3 + 1 attempts failed, with different errors, after
\* three waits
C40_Witness ==
  /\ retrying.pc = "settled"
  /\ retrying.maxRetries = 3
  /\ retrying.calls = 4
  /\ Len(retrying.waits) = 3
  /\ retrying.attempts[3] = Rejected("e1")
  /\ retrying.settled = Rejected("e2")

====
